---- MODULE Spec2Model ----
(***************************************************************************)
(* Model of the annotation geometry engine (CanvasUtils) and of the        *)
(* ImageViewer pointer-event state machine of proto_annot.                 *)
(*                                                                         *)
(* Numbers.  Coordinates are JavaScript numbers; the model draws them from *)
(* the integers.  The only non-integer quantities the code derives from    *)
(* integer bounds are the box centre (x + width/2, y + height/2) and the   *)
(* angles of Math.atan2.  Centres are kept doubled (fields x2, y2, in      *)
(* half-units) so that they stay integers; angles are kept in milliradians *)
(* (see atan2).  A tolerance is a rational num/den.                        *)
(***************************************************************************)
EXTENDS Integers, Sequences, FiniteSets, TLC

VARIABLES
    annotations,          \* image.annotations of the displayed image (parent state)
    selectedAnnotation,   \* id of the selected annotation, '' (NoId) or Null
    visibleAnnotations,   \* set of visible annotation ids
    activeTool,           \* "select" | "rectangle" | "circle"
    isDrawing, isTransforming, isDragging, isPanning,
    currentAnnotation,    \* annotation being drawn, or NoAnnotation
    transformHandle,      \* active handle, or NoHandle
    transformStartPoint,  \* Point or NoPoint
    dragStartPoint,       \* Point or NoPoint
    originalAnnotation,   \* snapshot taken at pointer-down, or NoAnnotation
    scale,                \* zoom factor, a rational num/den
    nextId,               \* number of annotation ids handed out so far
    gestures,             \* number of pointer-downs so far
    call,                 \* arguments of a pure-function call under check
    result,               \* its result
    lifecycle,            \* "mounted" | "unmounted": the viewer component
    image,                \* url of the image prop, or NoImage
    imageRef,             \* url of the loaded asset imageRef.current holds, or Null
    pendingLoads,         \* image loads in flight, each with its onload closure
    renderState,          \* [needsRedraw, isRendering]
    requestRenderClosure, \* what the current requestRender callback captured
    animationFrameRef,    \* id of the frame requested last, 0 before the first
    pendingFrames,        \* frame callbacks the browser has yet to run
    frameCount,           \* frame ids handed out by requestAnimationFrame
    renderPasses,         \* calls of performRender so far
    lastPass,             \* what the last call of performRender did, or NoPass
    failedLoads,          \* image loads that ended in onerror so far
    images,               \* ImageAnnotationTool: the image set
    currentImageIndex,    \* index (from 0) of the image displayed
    history,              \* snapshots of the image set
    historyIndex,         \* position in history, -1 before the first snapshot
    uploads,              \* number of images uploaded so far
    lastChange,           \* the image set before the last recorded change
    hidden                \* ids hidden by the visibility toggle

viewerVars == <<annotations, selectedAnnotation, visibleAnnotations, activeTool,
                isDrawing, isTransforming, isDragging, isPanning,
                currentAnnotation, transformHandle, transformStartPoint,
                dragStartPoint, originalAnnotation, scale, nextId, gestures>>
callVars == <<call, result>>
renderVars == <<lifecycle, image, imageRef, pendingLoads, renderState,
                requestRenderClosure, animationFrameRef, pendingFrames, frameCount,
                renderPasses, lastPass, failedLoads>>
toolVars == <<images, currentImageIndex, history, historyIndex, uploads,
              lastChange, hidden>>
vars == <<viewerVars, callVars, renderVars, toolVars>>

(***************************************************************************)
(* Bounds of the model and constants of the program                        *)
(***************************************************************************)
\* pointer coordinates of the pure-function checks: multiples of GridStep
\* in -MaxCoord..MaxCoord
MaxCoord == 25
GridStep == 5
\* tolerances of the hit-test check: num/den with num in -1..MaxTol and den
\* in 1..MaxTolDen; its points: -2..MaxHitX by -2..MaxHitY
MaxTol == 9
MaxTolDen == 2
MaxHitX == 16
MaxHitY == 42

\* pointer-downs in a behaviour of the viewer, and annotations drawn
MaxGestures == 3
MaxAnn == 2

\* boxes of the handle-layout check: origin in -MaxBoxXY..MaxBoxXY, width
\* and height in 0..MaxBoxSize
MaxBoxXY == 2
MaxBoxSize == 5

\* points of the containment check: -MaxProbe..MaxProbe on both axes
MaxProbe == 5

\* view transforms of the coordinate-mapping check: scale n/d with n and d
\* in 1..MaxScale, offsets -MaxOffset, 0 and MaxOffset on each axis
MaxScale == 3
MaxOffset == 5

\* frames requested in a behaviour of the render scheduling
MaxFrames == 5

\* the minimum size of a transformed box
MIN_SIZE == 10
\* the rotation handle sits this far above the box
ROTATE_OFFSET == 30
\* handleMouseDown's hit-test tolerance is 8 / scale
HANDLE_TOLERANCE == 8
\* handleMouseUp commits a drawn annotation wider and higher than this
COMMIT_MIN == 5

(***************************************************************************)
(* Absent values (undefined / null)                                        *)
(***************************************************************************)
NoBounds == [absent |-> "bounds"]
NoPoint == [absent |-> "point"]
NoHandle == [absent |-> "handle"]
NoAnnotation == [absent |-> "annotation"]
NoCall == [absent |-> "call"]
NoImage == "no-image"
NoPass == [absent |-> "pass"]
NoId == ""
Null == "null"

(***************************************************************************)
(* Arithmetic                                                              *)
(***************************************************************************)
Abs(n) == IF n < 0 THEN -n ELSE n
Max(a, b) == IF a >= b THEN a ELSE b
Min(a, b) == IF a <= b THEN a ELSE b

\* Math.atan2(y, x) in milliradians.  The arc tangent of t = min/max in
\* [0, 1] is t * (pi/4 + 0.273 * (1 - t)), within 4 mrad of the true value,
\* then folded into the octant of (x, y).  atan2(0, 0) = 0 as in JavaScript.
atan2(y, x) ==
    LET a == Abs(x)
        b == Abs(y)
        hi == Max(a, b)
        lo == Min(a, b)
        r0 == IF hi = 0 THEN 0
              ELSE (lo * (785 * hi + 273 * (hi - lo))) \div (hi * hi)
        r1 == IF b > a THEN 1571 - r0 ELSE r0
        r2 == IF x < 0 THEN 3142 - r1 ELSE r1
    IN  IF y < 0 THEN -r2 ELSE r2

(***************************************************************************)
(* CanvasUtils.getTransformHandles                                         *)
(***************************************************************************)
\* A handle's point is kept doubled: point.x2 = 2 * point.x.
Handle(type, position, x2, y2) ==
    [type |-> type, position |-> position, point |-> [x2 |-> x2, y2 |-> y2]]

\* (mutant: the rotation handle sits above the top-left corner)
getTransformHandles_rotateAtCorner(bounds) ==
    LET x == bounds.x
        y == bounds.y
        width == bounds.width
        height == bounds.height
        centerX2 == 2 * x + width
        centerY2 == 2 * y + height
    IN  << Handle("corner", "nw", 2 * x, 2 * y),
           Handle("corner", "ne", 2 * (x + width), 2 * y),
           Handle("corner", "sw", 2 * x, 2 * (y + height)),
           Handle("corner", "se", 2 * (x + width), 2 * (y + height)),
           Handle("edge", "n", centerX2, 2 * y),
           Handle("edge", "s", centerX2, 2 * (y + height)),
           Handle("edge", "e", 2 * (x + width), centerY2),
           Handle("edge", "w", 2 * x, centerY2),
           Handle("rotation", "rotate", 2 * x, 2 * (y - ROTATE_OFFSET)) >>

getTransformHandles(bounds) ==
    LET x == bounds.x
        y == bounds.y
        width == bounds.width
        height == bounds.height
        centerX2 == 2 * x + width
        centerY2 == 2 * y + height
    IN  << Handle("corner", "nw", 2 * x, 2 * y),
           Handle("corner", "ne", 2 * (x + width), 2 * y),
           Handle("corner", "sw", 2 * x, 2 * (y + height)),
           Handle("corner", "se", 2 * (x + width), 2 * (y + height)),
           Handle("edge", "n", centerX2, 2 * y),
           Handle("edge", "s", centerX2, 2 * (y + height)),
           Handle("edge", "e", 2 * (x + width), centerY2),
           Handle("edge", "w", 2 * x, centerY2),
           Handle("rotation", "rotate", centerX2, 2 * (y - ROTATE_OFFSET)) >>

(***************************************************************************)
(* CanvasUtils.getHandleAtPoint                                            *)
(***************************************************************************)
\* (mutant: distance < tolerance)
WithinTolerance_strict(point, handle, tol) ==
    LET dx2 == 2 * point.x - handle.point.x2
        dy2 == 2 * point.y - handle.point.y2
    IN  /\ tol.num >= 0
        /\ tol.den * tol.den * (dx2 * dx2 + dy2 * dy2) < 4 * tol.num * tol.num

\* distance <= tolerance, for tolerance = tol.num / tol.den (den > 0):
\* sqrt(d2) <= num/den  iff  num >= 0 and den^2 * d2 <= num^2, and with the
\* handle's point doubled, den^2 * (4 * d2) <= 4 * num^2.
WithinTolerance(point, handle, tol) ==
    LET dx2 == 2 * point.x - handle.point.x2
        dy2 == 2 * point.y - handle.point.y2
    IN  /\ tol.num >= 0
        /\ tol.den * tol.den * (dx2 * dx2 + dy2 * dy2) <= 4 * tol.num * tol.num

\* the for loop: the first handle of the list within tolerance, else null
getHandleAtPoint(point, bounds, tol) ==
    LET handles == getTransformHandles(bounds)
        hits == {i \in 1..Len(handles) : WithinTolerance(point, handles[i], tol)}
    IN  IF hits = {} THEN NoHandle
        ELSE handles[CHOOSE i \in hits : \A j \in hits : i <= j]

(***************************************************************************)
(* CanvasUtils.transformAnnotation                                         *)
(***************************************************************************)
Point(x, y) == [x |-> x, y |-> y]
Bounds(x, y, width, height) == [x |-> x, y |-> y, width |-> width, height |-> height]

\* case 'corner': the bounds after the corner's additions and subtractions,
\* before any normalisation
\* (mutant: sw forgets to move x)
resizeCorner_swKeepsX(bounds, position, deltaX, deltaY) ==
    LET x == bounds.x
        y == bounds.y
        w == bounds.width
        h == bounds.height
    IN  CASE position = "nw" -> Bounds(x + deltaX, y + deltaY, w - deltaX, h - deltaY)
          [] position = "ne" -> Bounds(x, y + deltaY, w + deltaX, h - deltaY)
          [] position = "sw" -> Bounds(x, y, w - deltaX, h + deltaY)
          [] position = "se" -> Bounds(x, y, w + deltaX, h + deltaY)
          [] OTHER -> bounds

resizeCorner(bounds, position, deltaX, deltaY) ==
    LET x == bounds.x
        y == bounds.y
        w == bounds.width
        h == bounds.height
    IN  CASE position = "nw" -> Bounds(x + deltaX, y + deltaY, w - deltaX, h - deltaY)
          [] position = "ne" -> Bounds(x, y + deltaY, w + deltaX, h - deltaY)
          [] position = "sw" -> Bounds(x + deltaX, y, w - deltaX, h + deltaY)
          [] position = "se" -> Bounds(x, y, w + deltaX, h + deltaY)
          [] OTHER -> bounds

\* case 'edge': likewise for the four edge handles
\* (mutant: e also adds deltaY to the height, as se does)
resizeEdge_eGrowsHeight(bounds, position, deltaX, deltaY) ==
    LET x == bounds.x
        y == bounds.y
        w == bounds.width
        h == bounds.height
    IN  CASE position = "n" -> Bounds(x, y + deltaY, w, h - deltaY)
          [] position = "s" -> Bounds(x, y, w, h + deltaY)
          [] position = "e" -> Bounds(x, y, w + deltaX, h + deltaY)
          [] position = "w" -> Bounds(x + deltaX, y, w - deltaX, h)
          [] OTHER -> bounds

\* (mutant: n shrinks the height and forgets to move y)
resizeEdge_nKeepsY(bounds, position, deltaX, deltaY) ==
    LET x == bounds.x
        y == bounds.y
        w == bounds.width
        h == bounds.height
    IN  CASE position = "n" -> Bounds(x, y, w, h - deltaY)
          [] position = "s" -> Bounds(x, y, w, h + deltaY)
          [] position = "e" -> Bounds(x, y, w + deltaX, h)
          [] position = "w" -> Bounds(x + deltaX, y, w - deltaX, h)
          [] OTHER -> bounds

resizeEdge(bounds, position, deltaX, deltaY) ==
    LET x == bounds.x
        y == bounds.y
        w == bounds.width
        h == bounds.height
    IN  CASE position = "n" -> Bounds(x, y + deltaY, w, h - deltaY)
          [] position = "s" -> Bounds(x, y, w, h + deltaY)
          [] position = "e" -> Bounds(x, y, w + deltaX, h)
          [] position = "w" -> Bounds(x + deltaX, y, w - deltaX, h)
          [] OTHER -> bounds

\* switch (handle.type)
resizeBounds(bounds, handle, deltaX, deltaY) ==
    CASE handle.type = "corner" -> resizeCorner(bounds, handle.position, deltaX, deltaY)
      [] handle.type = "edge" -> resizeEdge(bounds, handle.position, deltaX, deltaY)
      [] OTHER -> bounds

\* (mutant: the floor without Math.abs)
ensureMinimumSize_noAbs(newBounds) ==
    [newBounds EXCEPT !.width = Max(MIN_SIZE, newBounds.width),
                      !.height = Max(MIN_SIZE, newBounds.height)]

\* "Ensure minimum size": Math.max(10, Math.abs(...)) on both dimensions
ensureMinimumSize(newBounds) ==
    [newBounds EXCEPT !.width = Max(MIN_SIZE, Abs(newBounds.width)),
                      !.height = Max(MIN_SIZE, Abs(newBounds.height))]

\* "Handle negative dimensions": the two ifs that follow the minimum size
handleNegativeDimensions(newBounds) ==
    LET b1 == IF newBounds.width < 0
              THEN [newBounds EXCEPT !.x = newBounds.x + newBounds.width,
                                     !.width = Abs(newBounds.width)]
              ELSE newBounds
    IN  IF b1.height < 0
        THEN [b1 EXCEPT !.y = b1.y + b1.height, !.height = Abs(b1.height)]
        ELSE b1

\* (mutant: the second point is the size, not the bottom-right corner)
pointsFromBounds_sizeAsCorner(newBounds) ==
    << Point(newBounds.x, newBounds.y), Point(newBounds.width, newBounds.height) >>

\* points: [{x, y}, {x + width, y + height}] of the new bounds
pointsFromBounds(newBounds) ==
    << Point(newBounds.x, newBounds.y),
       Point(newBounds.x + newBounds.width, newBounds.y + newBounds.height) >>

\* (mutant: the rotation case also regenerates the points, as the resize
\* cases do)
rotateAnnotation_regeneratesPoints(annotation, startPoint, currentPoint) ==
    LET centerX2 == 2 * annotation.bounds.x + annotation.bounds.width
        centerY2 == 2 * annotation.bounds.y + annotation.bounds.height
        startAngle == atan2(2 * startPoint.y - centerY2, 2 * startPoint.x - centerX2)
        currentAngle == atan2(2 * currentPoint.y - centerY2, 2 * currentPoint.x - centerX2)
        rotation == currentAngle - startAngle
    IN  [annotation EXCEPT !.rotation = annotation.rotation + rotation,
                           !.points = pointsFromBounds(annotation.bounds)]

\* case 'rotation': the angle at the box centre from startPoint to
\* currentPoint, added to (annotation.rotation || 0).  The centre is doubled
\* and so are the two vectors, which leaves their angles as they are.
rotateAnnotation(annotation, startPoint, currentPoint) ==
    LET centerX2 == 2 * annotation.bounds.x + annotation.bounds.width
        centerY2 == 2 * annotation.bounds.y + annotation.bounds.height
        startAngle == atan2(2 * startPoint.y - centerY2, 2 * startPoint.x - centerX2)
        currentAngle == atan2(2 * currentPoint.y - centerY2, 2 * currentPoint.x - centerX2)
        rotation == currentAngle - startAngle
    IN  [annotation EXCEPT !.rotation = annotation.rotation + rotation]

\* (mutant: no early return; the missing bounds are taken as an empty box)
transformAnnotation_noBoundsGuard(annotation, handle, startPoint, currentPoint) ==
    LET bounds == IF annotation.bounds = NoBounds THEN Bounds(0, 0, 0, 0)
                  ELSE annotation.bounds
        a == [annotation EXCEPT !.bounds = bounds]
    IN  IF handle.type = "rotation"
        THEN rotateAnnotation(a, startPoint, currentPoint)
        ELSE LET deltaX == currentPoint.x - startPoint.x
                 deltaY == currentPoint.y - startPoint.y
                 newBounds == handleNegativeDimensions(ensureMinimumSize(
                                  resizeBounds(bounds, handle, deltaX, deltaY)))
             IN  [a EXCEPT !.bounds = newBounds,
                           !.points = pointsFromBounds(newBounds)]

transformAnnotation(annotation, handle, startPoint, currentPoint) ==
    IF annotation.bounds = NoBounds THEN annotation
    ELSE IF handle.type = "rotation"
    THEN rotateAnnotation(annotation, startPoint, currentPoint)
    ELSE LET deltaX == currentPoint.x - startPoint.x
             deltaY == currentPoint.y - startPoint.y
             newBounds == handleNegativeDimensions(ensureMinimumSize(
                              resizeBounds(annotation.bounds, handle, deltaX, deltaY)))
         IN  [annotation EXCEPT !.bounds = newBounds,
                                !.points = pointsFromBounds(newBounds)]

(***************************************************************************)
(* The Annotation type and the values the checks draw from                 *)
(***************************************************************************)
Annotation(id, type, points, bounds, rotation) ==
    [id |-> id, type |-> type, label |-> "", color |-> "#3B82F6",
     points |-> points, bounds |-> bounds, rotation |-> rotation,
     scaleX |-> 1, scaleY |-> 1]

HandlePositions == <<"nw", "ne", "sw", "se", "n", "s", "e", "w", "rotate">>

Grid == {c \in -MaxCoord..MaxCoord : c % GridStep = 0}
GridPoints == {Point(x, y) : x \in Grid, y \in Grid}

\* widths and heights of the boxes transformed: below, at and above the
\* minimum size, odd and even
Dims == {4, 10, 13, 20}

\* a rectangle as handleMouseMove draws it from its top-left corner, and an
\* ellipse box whose points are the other diagonal, already rotated
InputAnnotations ==
    {Annotation("a1", "rectangle", pointsFromBounds(Bounds(0, 0, w, h)),
                Bounds(0, 0, w, h), 0) : w \in Dims, h \in Dims}
    \cup
    {Annotation("a2", "circle", <<Point(3 + w, -2), Point(3, -2 + h)>>,
                Bounds(3, -2, w, h), 250) : w \in Dims, h \in Dims}

\* an annotation as handleMouseDown creates it: one point, no bounds
BoundlessAnnotations ==
    {Annotation("a3", type, <<Point(0, 0)>>, NoBounds, 0) : type \in {"rectangle", "circle"}}

StartPoints == {Point(0, 0), Point(20, 20)}

TransformCall(a, h, s, c) ==
    [op |-> "transformAnnotation", annotation |-> a, handle |-> h,
     startPoint |-> s, currentPoint |-> c]

(***************************************************************************)
(* ImageViewer: render scheduling.  A callback captures the values of the  *)
(* render that created it: requestRender is recreated only when            *)
(* renderState.isRendering or renderState.needsRedraw changes, and keeps   *)
(* the renderState and the performRender (hence the image prop) of that    *)
(* render.  A state update is followed by its re-render before the next    *)
(* event, load completion or frame is handled.                             *)
(***************************************************************************)
RenderState(needsRedraw, isRendering) ==
    [needsRedraw |-> needsRedraw, isRendering |-> isRendering]

\* the refs and state requestRender works on
RenderView ==
    [lifecycle |-> lifecycle, renderState |-> renderState,
     animationFrameRef |-> animationFrameRef, pendingFrames |-> pendingFrames,
     frameCount |-> frameCount]

\* setRenderState: React drops the update of an unmounted component
setRenderState(view, next) ==
    IF view.lifecycle = "mounted" THEN next ELSE view.renderState

\* (mutant: the frame requested before is left pending)
requestRender_keepsPrevious(closure, view) ==
    IF closure.isRendering THEN view
    ELSE LET id == view.frameCount + 1
         IN  [view EXCEPT
                 !.renderState = setRenderState(view, [@ EXCEPT !.needsRedraw = TRUE]),
                 !.pendingFrames =
                     @ \cup {[id |-> id, needsRedraw |-> closure.needsRedraw,
                              image |-> closure.image]},
                 !.animationFrameRef = id,
                 !.frameCount = id]

\* requestRender, called through a closure: the frame callback it hands to
\* requestAnimationFrame reads the closure's renderState.needsRedraw and
\* calls the closure's performRender
requestRender(closure, view) ==
    IF closure.isRendering THEN view
    ELSE LET id == view.frameCount + 1
         IN  [view EXCEPT
                 !.renderState = setRenderState(view, [@ EXCEPT !.needsRedraw = TRUE]),
                 !.pendingFrames =
                     {f \in @ : view.animationFrameRef = 0 \/ f.id # view.animationFrameRef}
                        \cup {[id |-> id, needsRedraw |-> closure.needsRedraw,
                                image |-> closure.image]},
                 !.animationFrameRef = id,
                 !.frameCount = id]

\* the requestRender of the re-render that follows: a new callback when
\* renderState changed, the previous one otherwise
rerender(closure, before, after, img) ==
    IF after.lifecycle = "mounted" /\ after.renderState # before.renderState
    THEN [needsRedraw |-> after.renderState.needsRedraw,
          isRendering |-> after.renderState.isRendering, image |-> img]
    ELSE closure

\* performRender with the image prop its closure holds: nothing is drawn
\* without image, canvas (there is one while the viewer is mounted with an
\* image) or asset; otherwise the asset is drawn
performRender(closureImage) ==
    IF \/ closureImage = NoImage
       \/ ~(lifecycle = "mounted" /\ image # NoImage)
       \/ imageRef = Null
    THEN [drew |-> FALSE, displayed |-> image, lifecycle |-> lifecycle]
    ELSE [drew |-> TRUE, asset |-> imageRef, image |-> closureImage,
          displayed |-> image, lifecycle |-> lifecycle]

ImageUrls == {"image-1", "image-2"}

\* the viewer right after it was mounted with the first image: the preload
\* effect has started the load, the request-render effect has asked for
\* the first frame
RenderIdle ==
    LET closure == [needsRedraw |-> TRUE, isRendering |-> FALSE, image |-> "image-1"]
        view == requestRender(closure,
                    [lifecycle |-> "mounted", renderState |-> RenderState(TRUE, FALSE),
                     animationFrameRef |-> 0, pendingFrames |-> {}, frameCount |-> 0])
    IN  /\ lifecycle = "mounted"
        /\ image = "image-1"
        /\ imageRef = Null
        /\ pendingLoads = {[url |-> "image-1", requestRender |-> closure]}
        /\ renderState = view.renderState
        /\ requestRenderClosure = closure
        /\ animationFrameRef = view.animationFrameRef
        /\ pendingFrames = view.pendingFrames
        /\ frameCount = view.frameCount
        /\ renderPasses = 0
        /\ lastPass = NoPass
        /\ failedLoads = 0

\* the viewer right after it was mounted without an image (the parent has
\* none yet): no load, the request-render effect has asked for the first
\* frame
RenderNoImage ==
    LET closure == [needsRedraw |-> TRUE, isRendering |-> FALSE, image |-> NoImage]
        view == requestRender(closure,
                    [lifecycle |-> "mounted", renderState |-> RenderState(TRUE, FALSE),
                     animationFrameRef |-> 0, pendingFrames |-> {}, frameCount |-> 0])
    IN  /\ lifecycle = "mounted"
        /\ image = NoImage
        /\ imageRef = Null
        /\ pendingLoads = {}
        /\ renderState = view.renderState
        /\ requestRenderClosure = closure
        /\ animationFrameRef = view.animationFrameRef
        /\ pendingFrames = view.pendingFrames
        /\ frameCount = view.frameCount
        /\ renderPasses = 0
        /\ lastPass = NoPass
        /\ failedLoads = 0

(***************************************************************************)
(* ImageAnnotationTool: the image set and its history                      *)
(***************************************************************************)
\* saveToHistory keeps the last 50 snapshots
HISTORY_LIMIT == 50

NoChange == [absent |-> "change"]
NoImageData == [absent |-> "image"]

\* the id of the n-th image uploaded (Date.now() and Math.random() make
\* every id new)
ImageId(n) ==
    CASE n = 1 -> "img-1" [] n = 2 -> "img-2" [] n = 3 -> "img-3" [] OTHER -> "img-4"

\* an uploaded image: ImageUploader resolves it with no annotations
ImageData(id) == [id |-> id, annotations |-> <<>>]

\* the initial state of ImageAnnotationTool's useState calls
ToolStart ==
    /\ images = <<>>
    /\ currentImageIndex = 0
    /\ history = <<>>
    /\ historyIndex = -1
    /\ uploads = 0
    /\ lastChange = NoChange
    /\ hidden = {}

\* the parent after the upload of the first image, the one the viewer
\* displays: handleImagesUpload has recorded the empty image set
ToolIdle ==
    /\ images = <<ImageData(ImageId(1))>>
    /\ currentImageIndex = 0
    /\ history = << <<>> >>
    /\ historyIndex = 0
    /\ uploads = 1
    /\ lastChange = [before |-> <<>>]
    /\ hidden = {}

(***************************************************************************)
(* The viewer at rest: no image annotated yet, select tool, no gesture     *)
(***************************************************************************)
ViewerRest ==
    /\ annotations = <<>>
    /\ selectedAnnotation = Null
    /\ visibleAnnotations = {}
    /\ activeTool = "select"
    /\ isDrawing = FALSE
    /\ isTransforming = FALSE
    /\ isDragging = FALSE
    /\ isPanning = FALSE
    /\ currentAnnotation = NoAnnotation
    /\ transformHandle = NoHandle
    /\ transformStartPoint = NoPoint
    /\ dragStartPoint = NoPoint
    /\ originalAnnotation = NoAnnotation
    /\ scale = [num |-> 1, den |-> 1]
    /\ nextId = 0
    /\ gestures = 0

ViewerIdle ==
    /\ RenderIdle
    /\ ViewerRest
    /\ ToolIdle

(***************************************************************************)
(* Specification of transformAnnotation as a pure function                 *)
(***************************************************************************)
InitTransform ==
    /\ ViewerIdle
    /\ \E i \in 1..Len(HandlePositions), s \in StartPoints, c \in GridPoints :
          \/ \E a \in InputAnnotations :
                call = TransformCall(a, getTransformHandles(a.bounds)[i], s, c)
          \/ \E a \in BoundlessAnnotations :
                call = TransformCall(a, getTransformHandles(Bounds(0, 0, 20, 20))[i], s, c)
    /\ result = NoCall

ApplyTransform ==
    /\ call # NoCall
    /\ call.op = "transformAnnotation"
    /\ result = NoCall
    /\ result' = transformAnnotation(call.annotation, call.handle,
                                     call.startPoint, call.currentPoint)
    /\ UNCHANGED <<viewerVars, call, renderVars, toolVars>>

NextTransform == ApplyTransform

SpecTransform == InitTransform /\ [][NextTransform]_vars

(***************************************************************************)
(* Properties of transformAnnotation (checked under SpecTransform)         *)
(***************************************************************************)
TransformDone == call # NoCall /\ call.op = "transformAnnotation" /\ result # NoCall
ResizeDone ==
    /\ TransformDone
    /\ call.annotation.bounds # NoBounds
    /\ call.handle.type \in {"corner", "edge"}
EdgeDone == ResizeDone /\ call.handle.type = "edge"
CornerDone == ResizeDone /\ call.handle.type = "corner"

\* the call's input bounds, delta and handle position
InB == call.annotation.bounds
OutB == result.bounds
DX == call.currentPoint.x - call.startPoint.x
DY == call.currentPoint.y - call.startPoint.y
Pos == call.handle.position

\* the raw bounds the handle and the delta give, written out per axis: the
\* west handles move x and shrink the width, the east handles grow it, and
\* likewise north and south
West == Pos \in {"nw", "sw", "w"}
East == Pos \in {"ne", "se", "e"}
North == Pos \in {"nw", "ne", "n"}
South == Pos \in {"sw", "se", "s"}
RawX == IF West THEN InB.x + DX ELSE InB.x
RawY == IF North THEN InB.y + DY ELSE InB.y
RawWidth == IF West THEN InB.width - DX ELSE IF East THEN InB.width + DX ELSE InB.width
RawHeight == IF North THEN InB.height - DY ELSE IF South THEN InB.height + DY ELSE InB.height

\* C2 (as claimed): a negative raw width (height) is flipped: the result's x
\* (y) is the raw origin plus the negative raw size, and the size is its
\* absolute value, floored at 10; so {0,0,20,20} with se dragged from
\* (20,20) to (-5,-5) gives {-5,-5,10,10}.
C2_FlipOnNegativeSize ==
    ResizeDone =>
        /\ RawWidth < 0 =>
              OutB.x = RawX + RawWidth /\ OutB.width = Max(10, -RawWidth)
        /\ RawHeight < 0 =>
              OutB.y = RawY + RawHeight /\ OutB.height = Max(10, -RawHeight)

\* C3 (as claimed): an edge handle leaves the coordinates of the other axis
\* unchanged, for all bounds of positive width and height: e and w leave y
\* and height (e also x), n and s leave x and width (s also y).
C3_EdgeLeavesOtherAxis ==
    (EdgeDone /\ InB.width > 0 /\ InB.height > 0) =>
        /\ Pos \in {"e", "w"} => OutB.y = InB.y /\ OutB.height = InB.height
        /\ Pos \in {"n", "s"} => OutB.x = InB.x /\ OutB.width = InB.width
        /\ Pos = "e" => OutB.x = InB.x
        /\ Pos = "s" => OutB.y = InB.y

\* C3 (amended): an edge handle leaves the origin of the other axis
\* unchanged and leaves its dimension unchanged when that dimension is at
\* least 10; a dimension below 10 comes out as 10.
C3_EdgeLeavesOtherAxisFloored ==
    (EdgeDone /\ InB.width > 0 /\ InB.height > 0) =>
        /\ Pos \in {"e", "w"} =>
              /\ OutB.y = InB.y
              /\ OutB.height = (IF InB.height >= 10 THEN InB.height ELSE 10)
        /\ Pos \in {"n", "s"} =>
              /\ OutB.x = InB.x
              /\ OutB.width = (IF InB.width >= 10 THEN InB.width ELSE 10)
        /\ Pos = "e" => OutB.x = InB.x
        /\ Pos = "s" => OutB.y = InB.y

\* an e drag of a box less than 10 high: the height comes out as 10
C3_Witness ==
    /\ EdgeDone
    /\ Pos = "e"
    /\ DX # 0
    /\ InB.height < 10
    /\ OutB.height = 10
    /\ OutB.width # InB.width

\* C4 (as claimed): for every edge handle and every delta the edge opposite
\* the dragged one stays where it was: n keeps y + height, s keeps y, e
\* keeps x, w keeps x + width.
C4_OppositeEdgeFixed ==
    EdgeDone =>
        /\ Pos = "n" => OutB.y + OutB.height = InB.y + InB.height
        /\ Pos = "s" => OutB.y = InB.y
        /\ Pos = "e" => OutB.x = InB.x
        /\ Pos = "w" => OutB.x + OutB.width = InB.x + InB.width

\* C4 (amended): s and e keep the opposite edge for every delta; n and w
\* keep it whenever the raw dimension along the drag (height - deltaY,
\* width - deltaX) is at least 10.
C4_OppositeEdgeFixedAboveFloor ==
    EdgeDone =>
        /\ (Pos = "n" /\ InB.height - DY >= 10) =>
              OutB.y + OutB.height = InB.y + InB.height
        /\ Pos = "s" => OutB.y = InB.y
        /\ Pos = "e" => OutB.x = InB.x
        /\ (Pos = "w" /\ InB.width - DX >= 10) =>
              OutB.x + OutB.width = InB.x + InB.width

\* an n drag that moves the top edge and keeps the height above the floor
C4_Witness ==
    /\ EdgeDone
    /\ Pos = "n"
    /\ DY # 0
    /\ InB.height - DY >= 10
    /\ OutB.y # InB.y
    /\ OutB.height # InB.height

\* C5: after a corner or edge transform each dimension is max(10, |raw
\* dimension|): a raw dimension of magnitude below 10 gives exactly 10 and
\* no result is smaller than 10.
C5_MinimumSizeFloor ==
    ResizeDone =>
        /\ OutB.width = Max(10, Abs(RawWidth))
        /\ OutB.height = Max(10, Abs(RawHeight))
        /\ OutB.width >= 10
        /\ OutB.height >= 10

\* a resize whose raw width is negative and of magnitude below 10
C5_Witness ==
    /\ ResizeDone
    /\ RawWidth < 0
    /\ Abs(RawWidth) < 10
    /\ InB.width > 10
    /\ OutB.width = 10

\* C6: a corner handle whose delta keeps both raw dimensions >= 10 moves the
\* dragged corner by the delta and keeps the opposite corner:
\* nw -> {x+dx, y+dy, w-dx, h-dy}, ne -> {x, y+dy, w+dx, h-dy},
\* sw -> {x+dx, y, w-dx, h+dy}, se -> {x, y, w+dx, h+dy}.
C6_CornerResize ==
    (CornerDone /\ RawWidth >= 10 /\ RawHeight >= 10) =>
        /\ Pos = "nw" => OutB = Bounds(InB.x + DX, InB.y + DY, InB.width - DX, InB.height - DY)
        /\ Pos = "ne" => OutB = Bounds(InB.x, InB.y + DY, InB.width + DX, InB.height - DY)
        /\ Pos = "sw" => OutB = Bounds(InB.x + DX, InB.y, InB.width - DX, InB.height + DY)
        /\ Pos = "se" => OutB = Bounds(InB.x, InB.y, InB.width + DX, InB.height + DY)

\* an sw drag with both deltas non-zero that stays above the floor
C6_Witness ==
    /\ CornerDone
    /\ Pos = "sw"
    /\ DX # 0
    /\ DY # 0
    /\ RawWidth >= 10
    /\ RawHeight >= 10
    /\ OutB.x # InB.x

\* C7: the rotation handle returns the input with only rotation changed:
\* bounds, points and every other field are those of the input.
C7_RotationChangesOnlyRotation ==
    (TransformDone /\ call.annotation.bounds # NoBounds /\ call.handle.type = "rotation") =>
        /\ DOMAIN result = DOMAIN call.annotation
        /\ \A f \in DOMAIN result \ {"rotation"} : result[f] = call.annotation[f]

\* a rotation that turns a box whose points are not its bounds' corners and
\* whose dimensions are below the floor
C7_Witness ==
    /\ TransformDone
    /\ call.annotation.bounds # NoBounds
    /\ call.handle.type = "rotation"
    /\ result.rotation # call.annotation.rotation
    /\ call.annotation.points # pointsFromBounds(InB)
    /\ InB.width < 10

\* C8: an annotation without bounds is returned unchanged, whatever the
\* handle and the two points.
C8_BoundlessUnchanged ==
    (TransformDone /\ call.annotation.bounds = NoBounds) => result = call.annotation

\* a corner drag with a non-zero delta on an annotation without bounds
C8_Witness ==
    /\ TransformDone
    /\ call.annotation.bounds = NoBounds
    /\ call.handle.position = "se"
    /\ DX # 0
    /\ DY # 0

\* C9: after a corner or edge transform the points are the top-left and the
\* bottom-right corner of the result's bounds, and the box rebuilt from the
\* minimum and maximum of the two points is the result's bounds.
C9_PointsFollowBounds ==
    ResizeDone =>
        /\ result.points = << [x |-> OutB.x, y |-> OutB.y],
                              [x |-> OutB.x + OutB.width, y |-> OutB.y + OutB.height] >>
        /\ LET p == result.points[1]
               q == result.points[2]
           IN  OutB = [x |-> Min(p.x, q.x), y |-> Min(p.y, q.y),
                       width |-> Max(p.x, q.x) - Min(p.x, q.x),
                       height |-> Max(p.y, q.y) - Min(p.y, q.y)]

\* a resize that moved the origin of a box whose points were the other
\* diagonal
C9_Witness ==
    /\ ResizeDone
    /\ call.annotation.points # pointsFromBounds(InB)
    /\ OutB.x # InB.x
    /\ OutB.y # InB.y
    /\ result.points # call.annotation.points

(***************************************************************************)
(* Specification of getHandleAtPoint as a pure function                    *)
(***************************************************************************)
Tolerance(num, den) == [num |-> num, den |-> den]

\* boxes whose handles are closer to one another than the larger
\* tolerances, placed so that the rotation handle is among the points
HitBoxes == {Bounds(0, 30, 10, 10), Bounds(2, 30, 13, 4), Bounds(1, 31, 4, 11)}

InitHandle ==
    /\ ViewerIdle
    /\ \E x \in -2..MaxHitX, y \in -2..MaxHitY, b \in HitBoxes,
          num \in -1..MaxTol, den \in 1..MaxTolDen :
          call = [op |-> "getHandleAtPoint", point |-> Point(x, y), bounds |-> b,
                  tolerance |-> Tolerance(num, den)]
    /\ result = NoCall

ApplyHandle ==
    /\ call # NoCall
    /\ call.op = "getHandleAtPoint"
    /\ result = NoCall
    /\ result' = getHandleAtPoint(call.point, call.bounds, call.tolerance)
    /\ UNCHANGED <<viewerVars, call, renderVars, toolVars>>

NextHandle == ApplyHandle

SpecHandle == InitHandle /\ [][NextHandle]_vars

(***************************************************************************)
(* Properties of getHandleAtPoint (checked under SpecHandle)               *)
(***************************************************************************)
HitDone == call # NoCall /\ call.op = "getHandleAtPoint" /\ result # NoCall

\* the order the claim gives, and the handle of the call's box at a position
ClaimedOrder == <<"nw", "ne", "sw", "se", "n", "s", "e", "w", "rotate">>
HandleAt(position) ==
    LET handles == getTransformHandles(call.bounds)
    IN  handles[CHOOSE i \in 1..Len(handles) : handles[i].position = position]

\* four times the squared distance from the call's point to a handle, and
\* four times the squared tolerance scaled alike
Dist2x4(position) ==
    LET h == HandleAt(position)
    IN  (2 * call.point.x - h.point.x2) * (2 * call.point.x - h.point.x2)
          + (2 * call.point.y - h.point.y2) * (2 * call.point.y - h.point.y2)
Near(position) ==
    /\ call.tolerance.num >= 0
    /\ call.tolerance.den * call.tolerance.den * Dist2x4(position)
          <= 4 * call.tolerance.num * call.tolerance.num

\* C10: getHandleAtPoint returns the first handle, in the order nw, ne, sw,
\* se, n, s, e, w, rotate, whose distance to the point is <= tolerance, and
\* none exactly when every handle is farther than the tolerance.
C10_FirstHandleWithinTolerance ==
    HitDone =>
        /\ (result = NoHandle) <=> (\A i \in 1..9 : ~Near(ClaimedOrder[i]))
        /\ \A i \in 1..9 :
              (Near(ClaimedOrder[i]) /\ \A j \in 1..(i - 1) : ~Near(ClaimedOrder[j]))
                  => result = HandleAt(ClaimedOrder[i])

\* a point exactly at the tolerance from the handle returned, with a later
\* handle within the tolerance too
C10_Witness ==
    /\ HitDone
    /\ result # NoHandle
    /\ result.position = "ne"
    /\ call.tolerance.num > 0
    /\ call.tolerance.den * call.tolerance.den * Dist2x4("ne")
          = 4 * call.tolerance.num * call.tolerance.num
    /\ Near("e")

\* the call's point is exactly the point of the handle at a position
AtHandle(position) ==
    /\ 2 * call.point.x = HandleAt(position).point.x2
    /\ 2 * call.point.y = HandleAt(position).point.y2

\* the call's tolerance is 8 / scale for a zoom scale in [0.1, 5], that is
\* a tolerance between 8/5 and 80
ViewerTolerance ==
    /\ call.tolerance.num > 0
    /\ 5 * call.tolerance.num >= HANDLE_TOLERANCE * call.tolerance.den
    /\ call.tolerance.num <= 10 * HANDLE_TOLERANCE * call.tolerance.den

\* C26: every handle can be grabbed: for bounds at least 10 wide and 10
\* high and the viewer's tolerance 8/scale at a zoom scale in [0.1, 5],
\* getHandleAtPoint called with the exact point of a handle returns that
\* handle, for each of the nine handles.
C26_EveryHandleGrabbable ==
    (/\ HitDone
     /\ call.bounds.width >= MIN_SIZE
     /\ call.bounds.height >= MIN_SIZE
     /\ ViewerTolerance) =>
        \A i \in 1..9 :
           AtHandle(ClaimedOrder[i]) => result = HandleAt(ClaimedOrder[i])

(***************************************************************************)
(* CanvasUtils.isPointInAnnotation                                         *)
(***************************************************************************)
isPointInAnnotation(point, annotation) ==
    IF annotation.bounds # NoBounds
    THEN /\ point.x >= annotation.bounds.x
         /\ point.x <= annotation.bounds.x + annotation.bounds.width
         /\ point.y >= annotation.bounds.y
         /\ point.y <= annotation.bounds.y + annotation.bounds.height
    ELSE CASE annotation.type = "rectangle" ->
                IF Len(annotation.points) >= 2
                THEN LET p == annotation.points[1]
                         q == annotation.points[2]
                     IN  /\ point.x >= Min(p.x, q.x)
                         /\ point.x <= Max(p.x, q.x)
                         /\ point.y >= Min(p.y, q.y)
                         /\ point.y <= Max(p.y, q.y)
                ELSE FALSE
           [] annotation.type = "circle" ->
                IF Len(annotation.points) >= 2
                THEN LET center == annotation.points[1]
                         q == annotation.points[2]
                         radius2 == (q.x - center.x) * (q.x - center.x)
                                      + (q.y - center.y) * (q.y - center.y)
                         distance2 == (point.x - center.x) * (point.x - center.x)
                                        + (point.y - center.y) * (point.y - center.y)
                     IN  distance2 <= radius2
                ELSE FALSE
           [] OTHER -> FALSE

\* The repository's other revision of CanvasUtils (the one without transform
\* handles) decides by type first: a rectangle by its bounds, a circle by
\* its two points whether or not it has bounds.
isPointInAnnotation_typeFirst(point, annotation) ==
    CASE annotation.type = "rectangle" ->
            IF annotation.bounds # NoBounds
            THEN /\ point.x >= annotation.bounds.x
                 /\ point.x <= annotation.bounds.x + annotation.bounds.width
                 /\ point.y >= annotation.bounds.y
                 /\ point.y <= annotation.bounds.y + annotation.bounds.height
            ELSE FALSE
      [] annotation.type = "circle" ->
            IF Len(annotation.points) >= 2
            THEN LET center == annotation.points[1]
                     q == annotation.points[2]
                     radius2 == (q.x - center.x) * (q.x - center.x)
                                  + (q.y - center.y) * (q.y - center.y)
                     distance2 == (point.x - center.x) * (point.x - center.x)
                                    + (point.y - center.y) * (point.y - center.y)
                 IN  distance2 <= radius2
            ELSE FALSE
      [] OTHER -> FALSE

(***************************************************************************)
(* ImageAnnotationTool: the handlers the viewer calls                      *)
(***************************************************************************)
\* the effect on [images]: every annotation id becomes visible
AllAnnotationIds(anns) == {anns[i].id : i \in 1..Len(anns)}

\* handleAnnotationAdd: append to the displayed image's annotations
handleAnnotationAdd(anns, annotation) == Append(anns, annotation)

\* handleAnnotationSelect: setSelectedAnnotation(prev => prev === id ? null : id)
handleAnnotationSelect(prev, id) == IF prev = id THEN Null ELSE id

\* onAnnotationUpdate: the annotation with the same id is replaced
handleAnnotationUpdate(anns, annotation) ==
    [i \in 1..Len(anns) |-> IF anns[i].id = annotation.id THEN annotation ELSE anns[i]]

(***************************************************************************)
(* ImageViewer: pointer events.  An event is modelled by its point in      *)
(* canvas space, the value getPointInCanvas gives the handler.             *)
(***************************************************************************)
ViewXs == {0, 6}
ViewYs == {0, 30, 40}
ViewPoints == {Point(x, y) : x \in ViewXs, y \in ViewYs} \ {Point(6, 0)}
Tools == {"select", "rectangle", "circle"}

\* image.annotations.find(ann => ann.id === selectedAnnotation)
selectedAnnotationObj ==
    LET found == {i \in 1..Len(annotations) : annotations[i].id = selectedAnnotation}
    IN  IF found = {} THEN NoAnnotation
        ELSE annotations[CHOOSE i \in found : \A j \in found : i <= j]

\* 8 / scale
HandleTolerance == [num |-> HANDLE_TOLERANCE * scale.den, den |-> scale.num]

\* (mutant: a point inside the selected annotation is never taken for a
\* handle)
handleUnder_insideFirst(point) ==
    IF /\ selectedAnnotationObj # NoAnnotation
       /\ selectedAnnotationObj.bounds # NoBounds
       /\ ~isPointInAnnotation(point, selectedAnnotationObj)
    THEN getHandleAtPoint(point, selectedAnnotationObj.bounds, HandleTolerance)
    ELSE NoHandle

\* the handle under the point of a pointer-down with the select tool
handleUnder(point) ==
    IF selectedAnnotationObj # NoAnnotation /\ selectedAnnotationObj.bounds # NoBounds
    THEN getHandleAtPoint(point, selectedAnnotationObj.bounds, HandleTolerance)
    ELSE NoHandle

\* image.annotations.find(visible and containing the point)
clickedAnnotation(point) ==
    LET found == {i \in 1..Len(annotations) :
                    /\ annotations[i].id \in visibleAnnotations
                    /\ isPointInAnnotation(point, annotations[i])}
    IN  IF found = {} THEN NoAnnotation
        ELSE annotations[CHOOSE i \in found : \A j \in found : i <= j]

\* handleMouseDown, select tool, a handle of the selected annotation hit
MouseDownTransform(point) ==
    /\ gestures < MaxGestures
    /\ activeTool = "select"
    /\ handleUnder(point) # NoHandle
    /\ isTransforming' = TRUE
    /\ transformHandle' = handleUnder(point)
    /\ transformStartPoint' = point
    /\ originalAnnotation' = selectedAnnotationObj
    /\ gestures' = gestures + 1
    /\ UNCHANGED <<annotations, selectedAnnotation, visibleAnnotations, activeTool,
                   isDrawing, isDragging, isPanning, currentAnnotation,
                   dragStartPoint, scale, nextId, callVars, renderVars, toolVars>>

\* handleMouseDown, select tool, inside the selected annotation
MouseDownDrag(point) ==
    /\ gestures < MaxGestures
    /\ activeTool = "select"
    /\ handleUnder(point) = NoHandle
    /\ selectedAnnotationObj # NoAnnotation
    /\ isPointInAnnotation(point, selectedAnnotationObj)
    /\ isDragging' = TRUE
    /\ dragStartPoint' = point
    /\ originalAnnotation' = selectedAnnotationObj
    /\ gestures' = gestures + 1
    /\ UNCHANGED <<annotations, selectedAnnotation, visibleAnnotations, activeTool,
                   isDrawing, isTransforming, isPanning, currentAnnotation,
                   transformHandle, transformStartPoint, scale, nextId, callVars, renderVars, toolVars>>

\* handleMouseDown, select tool, otherwise: select the annotation clicked, or
\* clear the selection and start panning
MouseDownSelect(point) ==
    /\ gestures < MaxGestures
    /\ activeTool = "select"
    /\ handleUnder(point) = NoHandle
    /\ ~(selectedAnnotationObj # NoAnnotation
           /\ isPointInAnnotation(point, selectedAnnotationObj))
    /\ IF clickedAnnotation(point) # NoAnnotation
       THEN /\ selectedAnnotation' =
                  handleAnnotationSelect(selectedAnnotation, clickedAnnotation(point).id)
            /\ UNCHANGED isPanning
       ELSE /\ selectedAnnotation' = handleAnnotationSelect(selectedAnnotation, NoId)
            /\ isPanning' = TRUE
    /\ gestures' = gestures + 1
    /\ UNCHANGED <<annotations, visibleAnnotations, activeTool, isDrawing,
                   isTransforming, isDragging, currentAnnotation, transformHandle,
                   transformStartPoint, dragStartPoint, originalAnnotation, scale,
                   nextId, callVars, renderVars, toolVars>>

\* the id of the n-th annotation drawn (Date.now() and Math.random() make
\* every id new)
AnnotationId(n) ==
    CASE n = 0 -> "annotation-0" [] n = 1 -> "annotation-1" [] n = 2 -> "annotation-2"
      [] n = 3 -> "annotation-3" [] OTHER -> "annotation-4"

\* handleMouseDown, a draw tool: a new annotation of one point and no bounds
MouseDownDraw(point) ==
    /\ gestures < MaxGestures
    /\ nextId < MaxAnn
    /\ activeTool # "select"
    /\ isDrawing' = TRUE
    /\ currentAnnotation' = Annotation(AnnotationId(nextId), activeTool, <<point>>, NoBounds, 0)
    /\ nextId' = nextId + 1
    /\ gestures' = gestures + 1
    /\ UNCHANGED <<annotations, selectedAnnotation, visibleAnnotations, activeTool,
                   isTransforming, isDragging, isPanning, transformHandle,
                   transformStartPoint, dragStartPoint, originalAnnotation, scale,
                   callVars, renderVars, toolVars>>

\* handleMouseMove while panning: only the view offset moves
MouseMovePan(point) ==
    /\ isPanning
    /\ UNCHANGED vars

\* handleMouseMove while transforming
MouseMoveTransform(point) ==
    /\ ~isPanning
    /\ isTransforming
    /\ transformHandle # NoHandle
    /\ transformStartPoint # NoPoint
    /\ originalAnnotation # NoAnnotation
    /\ annotations' = handleAnnotationUpdate(annotations,
            transformAnnotation(originalAnnotation, transformHandle,
                                transformStartPoint, point))
    /\ visibleAnnotations' = AllAnnotationIds(annotations')
    /\ UNCHANGED <<selectedAnnotation, activeTool, isDrawing, isTransforming,
                   isDragging, isPanning, currentAnnotation, transformHandle,
                   transformStartPoint, dragStartPoint, originalAnnotation, scale,
                   nextId, gestures, callVars, renderVars, toolVars>>

\* the annotation handleMouseMove emits while dragging
draggedAnnotation(original, start, point) ==
    LET deltaX == point.x - start.x
        deltaY == point.y - start.y
    IN  [original EXCEPT
            !.bounds = [original.bounds EXCEPT !.x = original.bounds.x + deltaX,
                                               !.y = original.bounds.y + deltaY],
            !.points = [i \in 1..Len(original.points) |->
                           Point(original.points[i].x + deltaX,
                                 original.points[i].y + deltaY)]]

\* (mutant: each move shifts the annotation as it is now, not the snapshot)
MouseMoveDrag_fromCurrent(point) ==
    /\ ~isPanning
    /\ ~(isTransforming /\ transformHandle # NoHandle /\ transformStartPoint # NoPoint
           /\ originalAnnotation # NoAnnotation)
    /\ isDragging
    /\ dragStartPoint # NoPoint
    /\ originalAnnotation # NoAnnotation
    /\ originalAnnotation.bounds # NoBounds
    /\ selectedAnnotationObj # NoAnnotation
    /\ selectedAnnotationObj.bounds # NoBounds
    /\ annotations' = handleAnnotationUpdate(annotations,
            draggedAnnotation(selectedAnnotationObj, dragStartPoint, point))
    /\ visibleAnnotations' = AllAnnotationIds(annotations')
    /\ UNCHANGED <<selectedAnnotation, activeTool, isDrawing, isTransforming,
                   isDragging, isPanning, currentAnnotation, transformHandle,
                   transformStartPoint, dragStartPoint, originalAnnotation, scale,
                   nextId, gestures, callVars, renderVars, toolVars>>

\* handleMouseMove while dragging the selected annotation
MouseMoveDrag(point) ==
    /\ ~isPanning
    /\ ~(isTransforming /\ transformHandle # NoHandle /\ transformStartPoint # NoPoint
           /\ originalAnnotation # NoAnnotation)
    /\ isDragging
    /\ dragStartPoint # NoPoint
    /\ originalAnnotation # NoAnnotation
    /\ originalAnnotation.bounds # NoBounds
    /\ annotations' = handleAnnotationUpdate(annotations,
            draggedAnnotation(originalAnnotation, dragStartPoint, point))
    /\ visibleAnnotations' = AllAnnotationIds(annotations')
    /\ UNCHANGED <<selectedAnnotation, activeTool, isDrawing, isTransforming,
                   isDragging, isPanning, currentAnnotation, transformHandle,
                   transformStartPoint, dragStartPoint, originalAnnotation, scale,
                   nextId, gestures, callVars, renderVars, toolVars>>

\* (mutant: the box of a rectangle starts at the gesture's first point)
drawnAnnotation_originAtStart(current, point) ==
    LET first == current.points[1]
    IN  CASE current.type = "rectangle" ->
               [current EXCEPT
                   !.points = <<first, point>>,
                   !.bounds = Bounds(first.x, first.y,
                                     Abs(point.x - first.x), Abs(point.y - first.y))]
          [] current.type = "circle" ->
               LET radiusX == Abs(point.x - first.x)
                   radiusY == Abs(point.y - first.y)
               IN  [current EXCEPT
                       !.points = <<first, point>>,
                       !.bounds = Bounds(first.x - radiusX, first.y - radiusY,
                                         radiusX * 2, radiusY * 2)]
          [] OTHER -> current

\* the annotation handleMouseMove builds while drawing
drawnAnnotation(current, point) ==
    LET first == current.points[1]
    IN  CASE current.type = "rectangle" ->
               [current EXCEPT
                   !.points = <<first, point>>,
                   !.bounds = Bounds(Min(first.x, point.x), Min(first.y, point.y),
                                     Abs(point.x - first.x), Abs(point.y - first.y))]
          [] current.type = "circle" ->
               LET radiusX == Abs(point.x - first.x)
                   radiusY == Abs(point.y - first.y)
               IN  [current EXCEPT
                       !.points = <<first, point>>,
                       !.bounds = Bounds(first.x - radiusX, first.y - radiusY,
                                         radiusX * 2, radiusY * 2)]
          [] OTHER -> current

\* handleMouseMove while drawing
MouseMoveDraw(point) ==
    /\ ~isPanning
    /\ ~(isTransforming /\ transformHandle # NoHandle /\ transformStartPoint # NoPoint
           /\ originalAnnotation # NoAnnotation)
    /\ ~(isDragging /\ dragStartPoint # NoPoint /\ originalAnnotation # NoAnnotation
           /\ originalAnnotation.bounds # NoBounds)
    /\ isDrawing
    /\ currentAnnotation # NoAnnotation
    /\ currentAnnotation' = drawnAnnotation(currentAnnotation, point)
    /\ UNCHANGED <<annotations, selectedAnnotation, visibleAnnotations, activeTool,
                   isDrawing, isTransforming, isDragging, isPanning, transformHandle,
                   transformStartPoint, dragStartPoint, originalAnnotation, scale,
                   nextId, gestures, callVars, renderVars, toolVars>>

\* (mutant: every drawn annotation that has bounds is committed)
hasMeaningfulSize_anyBounds(annotation) ==
    annotation.bounds # NoBounds

\* (mutant: the height is not looked at)
hasMeaningfulSize_widthOnly(annotation) ==
    /\ annotation.bounds # NoBounds
    /\ annotation.bounds.width > COMMIT_MIN

\* "Only add annotation if it has meaningful size"
hasMeaningfulSize(annotation) ==
    /\ annotation.bounds # NoBounds
    /\ annotation.bounds.width > COMMIT_MIN
    /\ annotation.bounds.height > COMMIT_MIN

\* (mutant: the end of a drag leaves the snapshot in place)
MouseUp_keepsSnapshot ==
    /\ isPanning' = FALSE
    /\ isTransforming' = FALSE
    /\ isDragging' = FALSE
    /\ transformHandle' = (IF isTransforming THEN NoHandle ELSE transformHandle)
    /\ transformStartPoint' = (IF isTransforming THEN NoPoint ELSE transformStartPoint)
    /\ dragStartPoint' = (IF isDragging THEN NoPoint ELSE dragStartPoint)
    /\ originalAnnotation' = (IF isTransforming THEN NoAnnotation ELSE originalAnnotation)
    /\ IF isDrawing /\ currentAnnotation # NoAnnotation
       THEN /\ isDrawing' = FALSE
            /\ currentAnnotation' = NoAnnotation
            /\ IF hasMeaningfulSize(currentAnnotation)
               THEN /\ annotations' = handleAnnotationAdd(annotations, currentAnnotation)
                    /\ visibleAnnotations' = AllAnnotationIds(annotations')
               ELSE UNCHANGED <<annotations, visibleAnnotations>>
       ELSE UNCHANGED <<isDrawing, currentAnnotation, annotations, visibleAnnotations>>
    /\ UNCHANGED <<selectedAnnotation, activeTool, scale, nextId, gestures, callVars, renderVars, toolVars>>

\* handleMouseUp (also bound to mouse-leave): the four ifs in turn
MouseUp ==
    /\ isPanning' = FALSE
    /\ isTransforming' = FALSE
    /\ isDragging' = FALSE
    /\ transformHandle' = (IF isTransforming THEN NoHandle ELSE transformHandle)
    /\ transformStartPoint' = (IF isTransforming THEN NoPoint ELSE transformStartPoint)
    /\ dragStartPoint' = (IF isDragging THEN NoPoint ELSE dragStartPoint)
    /\ originalAnnotation' =
          (IF isTransforming \/ isDragging THEN NoAnnotation ELSE originalAnnotation)
    /\ IF isDrawing /\ currentAnnotation # NoAnnotation
       THEN /\ isDrawing' = FALSE
            /\ currentAnnotation' = NoAnnotation
            /\ IF hasMeaningfulSize(currentAnnotation)
               THEN /\ annotations' = handleAnnotationAdd(annotations, currentAnnotation)
                    /\ visibleAnnotations' = AllAnnotationIds(annotations')
               ELSE UNCHANGED <<annotations, visibleAnnotations>>
       ELSE UNCHANGED <<isDrawing, currentAnnotation, annotations, visibleAnnotations>>
    /\ UNCHANGED <<selectedAnnotation, activeTool, scale, nextId, gestures, callVars, renderVars, toolVars>>

\* the tool panel and the v / r / c keys: setActiveTool
SetActiveTool(tool) ==
    /\ tool # activeTool
    /\ activeTool' = tool
    /\ UNCHANGED <<annotations, selectedAnnotation, visibleAnnotations,
                   isDrawing, isTransforming, isDragging, isPanning,
                   currentAnnotation, transformHandle, transformStartPoint,
                   dragStartPoint, originalAnnotation, scale, nextId, gestures,
                   callVars, renderVars, toolVars>>

Init ==
    /\ ViewerIdle
    /\ call = NoCall
    /\ result = NoCall

Next ==
    \/ \E point \in ViewPoints : MouseDownTransform(point)
    \/ \E point \in ViewPoints : MouseDownDrag(point)
    \/ \E point \in ViewPoints : MouseDownSelect(point)
    \/ \E point \in ViewPoints : MouseDownDraw(point)
    \/ \E point \in ViewPoints : MouseMovePan(point)
    \/ \E point \in ViewPoints : MouseMoveTransform(point)
    \/ \E point \in ViewPoints : MouseMoveDrag(point)
    \/ \E point \in ViewPoints : MouseMoveDraw(point)
    \/ MouseUp
    \/ \E tool \in Tools : SetActiveTool(tool)

Spec == Init /\ [][Next]_vars

(***************************************************************************)
(* Properties of the viewer (checked under Spec)                           *)
(***************************************************************************)
\* C1 (as claimed): every committed annotation that has bounds is at least
\* 10 wide and 10 high.
C1_CommittedAtLeastMinSize ==
    \A i \in 1..Len(annotations) :
        annotations[i].bounds # NoBounds =>
            annotations[i].bounds.width >= 10 /\ annotations[i].bounds.height >= 10

\* C1 (amended): every committed annotation that has bounds is more than 5
\* wide and more than 5 high.
C1_CommittedAboveCommitSize ==
    \A i \in 1..Len(annotations) :
        annotations[i].bounds # NoBounds =>
            annotations[i].bounds.width > 5 /\ annotations[i].bounds.height > 5

\* a committed annotation narrower than 10 in the middle of a move gesture
\* that has shifted it
C1_Witness ==
    /\ isDragging
    /\ \E i \in 1..Len(annotations) :
          /\ annotations[i].bounds # NoBounds
          /\ annotations[i].bounds.width < 10
          /\ originalAnnotation # NoAnnotation
          /\ annotations[i].id = originalAnnotation.id
          /\ annotations[i].bounds.x # originalAnnotation.bounds.x

(***************************************************************************)
(* Specification of getTransformHandles as a pure function                 *)
(***************************************************************************)
InitHandles ==
    /\ ViewerIdle
    /\ \E x \in -MaxBoxXY..MaxBoxXY, y \in -MaxBoxXY..MaxBoxXY,
          width \in 0..MaxBoxSize, height \in 0..MaxBoxSize :
          call = [op |-> "getTransformHandles", bounds |-> Bounds(x, y, width, height)]
    /\ result = NoCall

ApplyHandles ==
    /\ call # NoCall
    /\ call.op = "getTransformHandles"
    /\ result = NoCall
    /\ result' = getTransformHandles(call.bounds)
    /\ UNCHANGED <<viewerVars, call, renderVars, toolVars>>

NextHandles == ApplyHandles

SpecHandles == InitHandles /\ [][NextHandles]_vars

(***************************************************************************)
(* Properties of getTransformHandles (checked under SpecHandles)           *)
(***************************************************************************)
HandlesDone == call # NoCall /\ call.op = "getTransformHandles" /\ result # NoCall

\* the point (in half-units) the claim gives the handle at a position of
\* the box x, y, width, height
ClaimedPoint(position, b) ==
    CASE position = "nw" -> [x2 |-> 2 * b.x, y2 |-> 2 * b.y]
      [] position = "ne" -> [x2 |-> 2 * b.x + 2 * b.width, y2 |-> 2 * b.y]
      [] position = "sw" -> [x2 |-> 2 * b.x, y2 |-> 2 * b.y + 2 * b.height]
      [] position = "se" -> [x2 |-> 2 * b.x + 2 * b.width, y2 |-> 2 * b.y + 2 * b.height]
      [] position = "n" -> [x2 |-> 2 * b.x + b.width, y2 |-> 2 * b.y]
      [] position = "s" -> [x2 |-> 2 * b.x + b.width, y2 |-> 2 * b.y + 2 * b.height]
      [] position = "e" -> [x2 |-> 2 * b.x + 2 * b.width, y2 |-> 2 * b.y + b.height]
      [] position = "w" -> [x2 |-> 2 * b.x, y2 |-> 2 * b.y + b.height]
      [] position = "rotate" -> [x2 |-> 2 * b.x + b.width, y2 |-> 2 * b.y - 60]

\* C11: getTransformHandles returns exactly nine handles, in the order nw,
\* ne, sw, se, n, s, e, w, rotate: the four corners, the four edge
\* midpoints, and the rotation handle at (x + width/2, y - 30).
C11_NineHandlesInOrder ==
    HandlesDone =>
        /\ Len(result) = 9
        /\ \A i \in 1..9 :
              /\ result[i].position = ClaimedOrder[i]
              /\ result[i].point = ClaimedPoint(ClaimedOrder[i], call.bounds)
              /\ result[i].type = (IF i <= 4 THEN "corner"
                                   ELSE IF i <= 8 THEN "edge" ELSE "rotation")

\* the handles of a box of odd width and height away from the origin: the
\* midpoints fall between the integers
C11_Witness ==
    /\ HandlesDone
    /\ call.bounds.width % 2 = 1
    /\ call.bounds.height % 2 = 1
    /\ call.bounds.x < 0
    /\ call.bounds.y > 0
    /\ Len(result) = 9
    /\ result[9].point.x2 % 2 = 1

(***************************************************************************)
(* Specification of isPointInAnnotation as a pure function, in both        *)
(* revisions of CanvasUtils                                                *)
(***************************************************************************)
\* the types of the annotations probed: the two the tool draws and one it
\* does not know
ProbedTypes == {"rectangle", "circle", "polygon"}
\* their bounds and points: a drawn shape keeps the two points of its
\* gesture and the box they span
ProbedBounds == {NoBounds, Bounds(0, 0, 4, 3), Bounds(-1, 1, 2, 2)}
ProbedPoints == {<< >>, <<Point(0, 0), Point(4, 3)>>, <<Point(1, 3), Point(-1, 1)>>}

InitHit ==
    /\ ViewerIdle
    /\ \E x \in -MaxProbe..MaxProbe, y \in -MaxProbe..MaxProbe,
          type \in ProbedTypes, bounds \in ProbedBounds, points \in ProbedPoints :
          call = [op |-> "isPointInAnnotation", point |-> Point(x, y),
                  annotation |-> Annotation("a1", type, points, bounds, 0)]
    /\ result = NoCall

\* the revision with transform handles
ApplyHit ==
    /\ call # NoCall
    /\ call.op = "isPointInAnnotation"
    /\ result = NoCall
    /\ result' = [revision |-> "boundsFirst",
                  hit |-> isPointInAnnotation(call.point, call.annotation)]
    /\ UNCHANGED <<viewerVars, call, renderVars, toolVars>>

\* the revision without them
ApplyHitTypeFirst ==
    /\ call # NoCall
    /\ call.op = "isPointInAnnotation"
    /\ result = NoCall
    /\ result' = [revision |-> "typeFirst",
                  hit |-> isPointInAnnotation_typeFirst(call.point, call.annotation)]
    /\ UNCHANGED <<viewerVars, call, renderVars, toolVars>>

NextHit == ApplyHit \/ ApplyHitTypeFirst

SpecHit == InitHit /\ [][NextHit]_vars

(***************************************************************************)
(* Properties of isPointInAnnotation (checked under SpecHit)               *)
(***************************************************************************)
HitTestDone == call # NoCall /\ call.op = "isPointInAnnotation" /\ result # NoCall

\* box containment, the boundary included
InBox(p, b) ==
    /\ b.x <= p.x /\ p.x <= b.x + b.width
    /\ b.y <= p.y /\ p.y <= b.y + b.height

\* C12: for every annotation with bounds, rectangle or circle alike,
\* isPointInAnnotation is true exactly when the point lies in the box of the
\* bounds, its edges and corners included.
C12_BoundsDecideHit ==
    (/\ HitTestDone
     /\ call.annotation.bounds # NoBounds
     /\ call.annotation.type \in {"rectangle", "circle"})
        => (result.hit <=> InBox(call.point, call.annotation.bounds))

\* C13: isPointInAnnotation reports no hit for an annotation whose type is
\* neither rectangle nor circle, with or without bounds.
C13_UnknownTypeNeverHit ==
    (HitTestDone /\ call.annotation.type \notin {"rectangle", "circle"})
        => result.hit = FALSE

(***************************************************************************)
(* CanvasUtils.getPointInCanvas and the view transform of performRender.   *)
(* The numbers of both are rationals num/den with den > 0, so that the     *)
(* division by the scale is exact.                                         *)
(***************************************************************************)
Rat(num, den) == [num |-> num, den |-> den]
RatAdd(a, b) == Rat(a.num * b.den + b.num * a.den, a.den * b.den)
RatSub(a, b) == Rat(a.num * b.den - b.num * a.den, a.den * b.den)
RatMul(a, b) == Rat(a.num * b.num, a.den * b.den)
\* a / b for b > 0
RatDiv(a, b) == Rat(a.num * b.den, a.den * b.num)
RatEq(a, b) == a.num * b.den = b.num * a.den

\* (mutant: the offset is taken off before the division by the scale)
getPointInCanvas_offsetInDevicePixels(event, rect, s, offset) ==
    [x |-> RatDiv(RatSub(RatSub(event.clientX, rect.left), offset.x), s),
     y |-> RatDiv(RatSub(RatSub(event.clientY, rect.top), offset.y), s)]

\* event: clientX, clientY; rect: the canvas's bounding client rectangle
getPointInCanvas(event, rect, s, offset) ==
    [x |-> RatSub(RatDiv(RatSub(event.clientX, rect.left), s), offset.x),
     y |-> RatSub(RatDiv(RatSub(event.clientY, rect.top), s), offset.y)]

\* ctx.scale(scale, scale); ctx.translate(offset.x, offset.y): the canvas
\* pixel a point of the drawing lands on, seen from the client area the
\* canvas sits in at rect.left, rect.top
renderTransform(p, rect, s, offset) ==
    [clientX |-> RatAdd(rect.left, RatMul(s, RatAdd(p.x, offset.x))),
     clientY |-> RatAdd(rect.top, RatMul(s, RatAdd(p.y, offset.y)))]

(***************************************************************************)
(* Specification of the two round trips between client and canvas space    *)
(***************************************************************************)
Whole(n) == Rat(n, 1)
MapScales == {Rat(n, d) : n \in 1..MaxScale, d \in 1..MaxScale}
MapOffsets == {-MaxOffset, 0, MaxOffset}
MapRects == {[left |-> Whole(0), top |-> Whole(0)], [left |-> Whole(8), top |-> Whole(3)]}
MapXs == 0..3
MapYs == {-2, 7}

\* the call starts from a point of the image or from a client position
InitMap ==
    /\ ViewerIdle
    /\ \E s \in MapScales, ox \in MapOffsets, oy \in MapOffsets, rect \in MapRects,
          x \in MapXs, y \in MapYs, from \in {"image", "client"} :
          call = [op |-> "getPointInCanvas", from |-> from, scale |-> s,
                  offset |-> [x |-> Whole(ox), y |-> Whole(oy)], rect |-> rect,
                  x |-> Whole(x), y |-> Whole(y)]
    /\ result = NoCall

MapCall == call # NoCall /\ call.op = "getPointInCanvas"

\* the pointer handlers' first step on an event
MapEvent ==
    /\ MapCall
    /\ \/ /\ call.from = "client"
          /\ result = NoCall
          /\ result' = [steps |-> 1,
                        point |-> getPointInCanvas([clientX |-> call.x, clientY |-> call.y],
                                                   call.rect, call.scale, call.offset)]
       \/ /\ call.from = "image"
          /\ result # NoCall
          /\ result.steps = 1
          /\ result' = [steps |-> 2, via |-> result.event,
                        point |-> getPointInCanvas(result.event, call.rect,
                                                   call.scale, call.offset)]
    /\ UNCHANGED <<viewerVars, call, renderVars, toolVars>>

\* where performRender puts a point of the drawing
RenderPoint ==
    /\ MapCall
    /\ \/ /\ call.from = "image"
          /\ result = NoCall
          /\ result' = [steps |-> 1,
                        event |-> renderTransform([x |-> call.x, y |-> call.y],
                                                  call.rect, call.scale, call.offset)]
       \/ /\ call.from = "client"
          /\ result # NoCall
          /\ result.steps = 1
          /\ result' = [steps |-> 2, via |-> result.point,
                        event |-> renderTransform(result.point, call.rect,
                                                  call.scale, call.offset)]
    /\ UNCHANGED <<viewerVars, call, renderVars, toolVars>>

NextMap == MapEvent \/ RenderPoint

SpecMap == InitMap /\ [][NextMap]_vars

(***************************************************************************)
(* Properties of getPointInCanvas (checked under SpecMap)                  *)
(***************************************************************************)
RoundTripDone == MapCall /\ result # NoCall /\ result.steps = 2

\* C14: getPointInCanvas inverts the view transform: a point of the image
\* drawn at origin + scale * (p + offset) maps back to p, and a client
\* position mapped to canvas space is drawn at that client position.
C14_MapperInvertsRender ==
    RoundTripDone =>
        /\ call.from = "image" =>
              /\ RatEq(result.via.clientX,
                       Rat(call.rect.left.num * call.scale.den
                             + call.scale.num * (call.x.num + call.offset.x.num),
                           call.scale.den))
              /\ RatEq(result.point.x, call.x)
              /\ RatEq(result.point.y, call.y)
        /\ call.from = "client" =>
              /\ RatEq(result.event.clientX, call.x)
              /\ RatEq(result.event.clientY, call.y)

\* the round trip from a client position at scale 2 and offset (5, 5), by
\* way of a canvas point between the integers
C14_Witness ==
    /\ RoundTripDone
    /\ call.from = "client"
    /\ RatEq(call.scale, Rat(2, 1))
    /\ call.offset = [x |-> Whole(5), y |-> Whole(5)]
    /\ call.rect.left.num # 0
    /\ (result.via.x.num * 2) % (result.via.x.den * 2) # 0
    /\ result.via.x.num < 0

(***************************************************************************)
(* Properties of the viewer's gestures (checked under Spec)                *)
(***************************************************************************)
\* a pointer-up (or pointer-leave) that ends a draw gesture
DrawEnds == isDrawing /\ currentAnnotation # NoAnnotation /\ MouseUp

\* C15: on the pointer-up that ends a draw gesture the annotation in
\* progress is added to the annotation set exactly when it has bounds more
\* than 5 wide and more than 5 high, the set is unchanged otherwise, and in
\* both cases the annotation in progress is dropped and drawing ends.
C15_CommitOnPointerUp ==
    [][DrawEnds =>
          /\ IF /\ currentAnnotation.bounds # NoBounds
                /\ currentAnnotation.bounds.width > 5
                /\ currentAnnotation.bounds.height > 5
             THEN annotations' = Append(annotations, currentAnnotation)
             ELSE annotations' = annotations
          /\ currentAnnotation' = NoAnnotation
          /\ isDrawing' = FALSE]_vars

\* two draw gestures are over, one of them committed and one discarded
C15_Witness ==
    /\ nextId = 2
    /\ Len(annotations) = 1
    /\ ~isDrawing
    /\ currentAnnotation = NoAnnotation

\* the box spanned by two points
BoxOf(a, b) ==
    [x |-> IF a.x < b.x THEN a.x ELSE b.x,
     y |-> IF a.y < b.y THEN a.y ELSE b.y,
     width |-> IF a.x < b.x THEN b.x - a.x ELSE a.x - b.x,
     height |-> IF a.y < b.y THEN b.y - a.y ELSE a.y - b.y]

\* the pointer-up of a rectangle gesture that has seen a pointer-move
RectangleDrawEnds ==
    /\ DrawEnds
    /\ currentAnnotation.type = "rectangle"
    /\ Len(currentAnnotation.points) = 2

NothingSelected == selectedAnnotation \in {Null, NoId}

\* the committed annotations that are visible and whose bounds hold a point
VisibleAt(point) ==
    {i \in 1..Len(annotations) :
        /\ annotations[i].id \in visibleAnnotations
        /\ annotations[i].bounds # NoBounds
        /\ InBox(point, annotations[i].bounds)}

\* C16 (as claimed): a rectangle gesture from a to b commits an annotation
\* with the box of a and b as bounds; with nothing selected, a select-tool
\* pointer-down inside the bounds of a committed annotation selects that
\* annotation, and one outside every visible annotation selects none.
C16_DrawThenSelect ==
    [][/\ RectangleDrawEnds =>
             /\ Len(annotations') = Len(annotations) + 1
             /\ annotations'[Len(annotations')].bounds =
                    BoxOf(currentAnnotation.points[1], currentAnnotation.points[2])
       /\ (NothingSelected /\ activeTool = "select" /\ gestures' # gestures) =>
           \A point \in ViewPoints :
             MouseDownSelect(point) =>
                /\ \A i \in VisibleAt(point) : selectedAnnotation' = annotations[i].id
                /\ VisibleAt(point) = {} => selectedAnnotation' \in {Null, NoId}]_vars

\* C16 (amended): a rectangle gesture from a to b whose box is more than 5
\* wide and high commits an annotation with the box of a and b as bounds;
\* with nothing selected, a select-tool pointer-down selects the first
\* visible annotation whose bounds hold the point, and none when the point
\* is outside every visible annotation.
C16_DrawThenSelectFirstHit ==
    [][/\ (/\ RectangleDrawEnds
           /\ BoxOf(currentAnnotation.points[1], currentAnnotation.points[2]).width > 5
           /\ BoxOf(currentAnnotation.points[1], currentAnnotation.points[2]).height > 5) =>
             /\ Len(annotations') = Len(annotations) + 1
             /\ annotations'[Len(annotations')].id = currentAnnotation.id
             /\ annotations'[Len(annotations')].bounds =
                    BoxOf(currentAnnotation.points[1], currentAnnotation.points[2])
       /\ (NothingSelected /\ activeTool = "select" /\ gestures' # gestures) =>
           \A point \in ViewPoints :
             MouseDownSelect(point) =>
                /\ \A i \in VisibleAt(point) :
                      (\A j \in VisibleAt(point) : i <= j) =>
                          selectedAnnotation' = annotations[i].id
                /\ VisibleAt(point) = {} => selectedAnnotation' \in {Null, NoId}]_vars

\* two rectangles drawn towards the top left, the second selected by a
\* pointer-down at a point only it holds
C16_Witness ==
    /\ Len(annotations) = 2
    /\ annotations[1].type = "rectangle"
    /\ annotations[2].type = "rectangle"
    /\ annotations[1].points[2].x < annotations[1].points[1].x
    /\ annotations[2].points[2].y < annotations[2].points[1].y
    /\ selectedAnnotation = annotations[2].id
    /\ gestures = 3
    /\ ~isPanning /\ ~isDrawing

\* C20: at most one of the four interaction modes is active.
C20_AtMostOneMode ==
    /\ ~(isDrawing /\ isPanning)
    /\ ~(isDrawing /\ isTransforming)
    /\ ~(isDrawing /\ isDragging)
    /\ ~(isPanning /\ isTransforming)
    /\ ~(isPanning /\ isDragging)
    /\ ~(isTransforming /\ isDragging)

\* no mode is active and no session data is held
InteractionIdle ==
    /\ ~isDrawing
    /\ ~isPanning
    /\ ~isTransforming
    /\ ~isDragging
    /\ transformHandle = NoHandle
    /\ transformStartPoint = NoPoint
    /\ dragStartPoint = NoPoint
    /\ originalAnnotation = NoAnnotation
    /\ currentAnnotation = NoAnnotation

\* C21: every pointer-up (or pointer-leave) returns the interaction to
\* idle from whatever mode was active: afterwards drawing, panning,
\* transforming and dragging are inactive and the active handle, the
\* transform and drag start points, the snapshot and the annotation in
\* progress are cleared.
C21_PointerUpReturnsToIdle ==
    [][MouseUp => InteractionIdle']_vars

\* a rectangle was drawn (6 wide), then resized by a handle to at least
\* the minimum size, and the pointer-up that ended the resize left the
\* viewer idle
C21_Witness ==
    /\ InteractionIdle
    /\ Len(annotations) = 1
    /\ annotations[1].type = "rectangle"
    /\ annotations[1].bounds.width >= MIN_SIZE
    /\ gestures = 3

\* handleMouseDown at a point, whichever branch it takes
MouseDown(point) ==
    \/ MouseDownTransform(point)
    \/ MouseDownDrag(point)
    \/ MouseDownSelect(point)
    \/ MouseDownDraw(point)

\* the modes a step starts
ModesStarted ==
    {m \in {"drawing", "panning", "transforming", "dragging"} :
        \/ m = "drawing" /\ ~isDrawing /\ isDrawing'
        \/ m = "panning" /\ ~isPanning /\ isPanning'
        \/ m = "transforming" /\ ~isTransforming /\ isTransforming'
        \/ m = "dragging" /\ ~isDragging /\ isDragging'}

\* C22: a pointer-down decides one mode by fixed priority.  With the select
\* tool: (1) a handle of the selected annotation within 8/scale of the point
\* starts a transform with that handle, also when the point is inside the
\* annotation; (2) else a point inside the selected annotation starts a
\* drag; (3) else the first visible annotation holding the point is
\* reported selected and no mode starts; (4) else the selection is cleared
\* and panning starts.  With a draw tool drawing starts with a new
\* annotation of the single pointer-down point and no bounds.
C22_PointerDownPriority ==
    [][gestures' # gestures =>
         \A point \in ViewPoints :
            MouseDown(point) =>
               LET sel == selectedAnnotationObj
                   handle == IF sel # NoAnnotation /\ sel.bounds # NoBounds
                             THEN getHandleAtPoint(point, sel.bounds, HandleTolerance)
                             ELSE NoHandle
                   inside == sel # NoAnnotation /\ isPointInAnnotation(point, sel)
                   hits == {i \in 1..Len(annotations) :
                              /\ annotations[i].id \in visibleAnnotations
                              /\ isPointInAnnotation(point, annotations[i])}
               IN  /\ Cardinality(ModesStarted) <= 1
                   /\ IF activeTool # "select"
                      THEN /\ isDrawing'
                           /\ currentAnnotation' # NoAnnotation
                           /\ currentAnnotation'.type = activeTool
                           /\ currentAnnotation'.points = <<point>>
                           /\ currentAnnotation'.bounds = NoBounds
                           /\ ModesStarted \subseteq {"drawing"}
                      ELSE IF handle # NoHandle
                      THEN /\ isTransforming'
                           /\ transformHandle' = handle
                           /\ transformStartPoint' = point
                           /\ ModesStarted \subseteq {"transforming"}
                           /\ selectedAnnotation' = selectedAnnotation
                      ELSE IF inside
                      THEN /\ isDragging'
                           /\ dragStartPoint' = point
                           /\ ModesStarted \subseteq {"dragging"}
                           /\ selectedAnnotation' = selectedAnnotation
                      ELSE IF hits # {}
                      THEN /\ \A i \in hits :
                                 (\A j \in hits : i <= j) =>
                                     selectedAnnotation' = annotations[i].id
                           /\ ModesStarted = {}
                      ELSE /\ selectedAnnotation' \in {Null, NoId}
                           /\ isPanning'
                           /\ ModesStarted \subseteq {"panning"}]_vars

\* a transform was started by a pointer-down on a handle at a point that
\* is also inside the selected annotation
C22_Witness ==
    /\ isTransforming
    /\ ~isDragging
    /\ transformHandle # NoHandle
    /\ originalAnnotation # NoAnnotation
    /\ originalAnnotation.bounds # NoBounds
    /\ InBox(transformStartPoint, originalAnnotation.bounds)

\* C27: transform and move gestures are path-independent: every
\* pointer-move of a transforming or dragging gesture leaves the snapshot,
\* the start point and the handle as pointer-down set them, and the
\* annotation it emits is computed from these and the pointer position
\* alone, whatever the earlier moves made of the annotation; a move shifts
\* the origin of the bounds and every point by the pointer's displacement
\* from the start point and keeps width and height.
C27_PathIndependent ==
    [][((isTransforming \/ isDragging) /\ gestures' = gestures) =>
         \A point \in ViewPoints :
            /\ MouseMoveTransform(point) =>
                  /\ UNCHANGED <<originalAnnotation, transformHandle, transformStartPoint>>
                  /\ \A i \in 1..Len(annotations) :
                        annotations[i].id = originalAnnotation.id =>
                           annotations'[i] =
                              transformAnnotation(originalAnnotation, transformHandle,
                                                  transformStartPoint, point)
            /\ MouseMoveDrag(point) =>
                  /\ UNCHANGED <<originalAnnotation, dragStartPoint>>
                  /\ \A i \in 1..Len(annotations) :
                        annotations[i].id = originalAnnotation.id =>
                           LET moved == annotations'[i]
                               deltaX == point.x - dragStartPoint.x
                               deltaY == point.y - dragStartPoint.y
                           IN  /\ moved.bounds.x = originalAnnotation.bounds.x + deltaX
                               /\ moved.bounds.y = originalAnnotation.bounds.y + deltaY
                               /\ moved.bounds.width = originalAnnotation.bounds.width
                               /\ moved.bounds.height = originalAnnotation.bounds.height
                               /\ Len(moved.points) = Len(originalAnnotation.points)
                               /\ \A k \in 1..Len(moved.points) :
                                     /\ moved.points[k].x =
                                           originalAnnotation.points[k].x + deltaX
                                     /\ moved.points[k].y =
                                           originalAnnotation.points[k].y + deltaY
                               /\ moved.type = originalAnnotation.type
                               /\ moved.rotation = originalAnnotation.rotation]_vars

\* a drag is under way and has moved the selected annotation away from
\* the snapshot taken at pointer-down
C27_Witness ==
    /\ isDragging
    /\ ~isTransforming
    /\ ~isPanning
    /\ dragStartPoint # NoPoint
    /\ originalAnnotation # NoAnnotation
    /\ selectedAnnotationObj # NoAnnotation
    /\ selectedAnnotationObj.id = originalAnnotation.id
    /\ selectedAnnotationObj.bounds # originalAnnotation.bounds

(***************************************************************************)
(* Specification of the render scheduling                                  *)
(***************************************************************************)
SetView(view) ==
    /\ lifecycle' = view.lifecycle
    /\ renderState' = view.renderState
    /\ animationFrameRef' = view.animationFrameRef
    /\ pendingFrames' = view.pendingFrames
    /\ frameCount' = view.frameCount

\* a redraw request from a pointer handler or from the request-render
\* effect after a change of selection, tool, scale, offset or the
\* annotation being drawn
RequestRender ==
    /\ lifecycle = "mounted"
    /\ frameCount < MaxFrames
    /\ LET view == requestRender(requestRenderClosure, RenderView)
       IN  /\ SetView(view)
           /\ requestRenderClosure' = rerender(requestRenderClosure, RenderView, view, image)
    /\ UNCHANGED <<image, imageRef, pendingLoads, renderPasses, lastPass,
                   failedLoads, viewerVars, callVars, toolVars>>

\* the parent displays another image, or none: the preload effect, then
\* the request-render effect
SetImage(url) ==
    /\ lifecycle = "mounted"
    /\ frameCount < MaxFrames
    /\ url # image
    /\ image' = url
    /\ imageRef' = (IF url = NoImage THEN Null ELSE imageRef)
    /\ pendingLoads' =
          (IF url # NoImage /\ (imageRef = Null \/ imageRef # url)
           THEN pendingLoads \cup {[url |-> url, requestRender |-> requestRenderClosure]}
           ELSE pendingLoads)
    /\ LET view == requestRender(requestRenderClosure, RenderView)
       IN  /\ SetView(view)
           /\ requestRenderClosure' = rerender(requestRenderClosure, RenderView, view, url)
    /\ UNCHANGED <<renderPasses, lastPass, failedLoads, viewerVars, callVars, toolVars>>

\* img.onload
ImageLoaded(load) ==
    /\ load \in pendingLoads
    /\ frameCount < MaxFrames
    /\ pendingLoads' = pendingLoads \ {load}
    /\ imageRef' = load.url
    /\ LET view == requestRender(load.requestRender, RenderView)
       IN  /\ SetView(view)
           /\ requestRenderClosure' = rerender(requestRenderClosure, RenderView, view, image)
    /\ UNCHANGED <<image, renderPasses, lastPass, failedLoads, viewerVars, callVars, toolVars>>

\* img.onerror
ImageFailed(load) ==
    /\ load \in pendingLoads
    /\ pendingLoads' = pendingLoads \ {load}
    /\ failedLoads' = failedLoads + 1
    /\ UNCHANGED <<lifecycle, image, imageRef, renderState, requestRenderClosure,
                   animationFrameRef, pendingFrames, frameCount, renderPasses,
                   lastPass, viewerVars, callVars, toolVars>>

\* the browser runs a frame callback
FrameFires(frame) ==
    /\ frame \in pendingFrames
    /\ pendingFrames' = pendingFrames \ {frame}
    /\ IF frame.needsRedraw
       THEN /\ renderState' = setRenderState(RenderView, RenderState(FALSE, FALSE))
            /\ renderPasses' = renderPasses + 1
            /\ lastPass' = performRender(frame.image)
            /\ requestRenderClosure' =
                  rerender(requestRenderClosure, RenderView,
                           [RenderView EXCEPT !.renderState = renderState'], image)
       ELSE UNCHANGED <<renderState, renderPasses, lastPass, requestRenderClosure>>
    /\ UNCHANGED <<lifecycle, image, imageRef, pendingLoads, animationFrameRef,
                   frameCount, failedLoads, viewerVars, callVars, toolVars>>

\* the viewer is unmounted: the cleanup of the animation-frame effect
Unmount ==
    /\ lifecycle = "mounted"
    /\ lifecycle' = "unmounted"
    /\ pendingFrames' =
          (IF animationFrameRef # 0
           THEN {f \in pendingFrames : f.id # animationFrameRef}
           ELSE pendingFrames)
    /\ UNCHANGED <<image, imageRef, pendingLoads, renderState, requestRenderClosure,
                   animationFrameRef, frameCount, renderPasses, lastPass,
                   failedLoads, viewerVars, callVars, toolVars>>

InitRender ==
    /\ ViewerIdle
    /\ call = NoCall
    /\ result = NoCall

NextRender ==
    \/ RequestRender
    \/ \E url \in ImageUrls \cup {NoImage} : SetImage(url)
    \/ \E load \in pendingLoads : ImageLoaded(load)
    \/ \E load \in pendingLoads : ImageFailed(load)
    \/ \E frame \in pendingFrames : FrameFires(frame)
    \/ Unmount

SpecRender == InitRender /\ [][NextRender]_vars

(***************************************************************************)
(* Properties of the render scheduling (checked under SpecRender)          *)
(***************************************************************************)
\* C17: redraw requests are coalesced: at most one frame callback is
\* pending at any time, and a render pass runs only when the pending frame
\* fires, one pass for the frame however many requests went before it.
C17_RequestsCoalesced ==
    [][/\ Cardinality(pendingFrames) <= 1
       /\ Cardinality(pendingFrames') <= 1
       /\ renderPasses' # renderPasses =>
             /\ renderPasses' = renderPasses + 1
             /\ pendingFrames # {}
             /\ pendingFrames' = {}]_vars

\* five requests have been made and a single pass has run, which drew
\* the image; no frame is left pending
C17_Witness ==
    /\ lifecycle = "mounted"
    /\ frameCount = 5
    /\ renderPasses = 1
    /\ lastPass # NoPass
    /\ lastPass.drew
    /\ pendingFrames = {}

\* C18: no render pass runs after the viewer was unmounted.
C18_NoPassAfterTeardown ==
    lastPass # NoPass => lastPass.lifecycle = "mounted"

\* C19: a render pass draws nothing unless the asset the viewer holds is
\* the loaded asset of the image displayed at the time of the pass.
C19_NoDrawWithoutCurrentAsset ==
    (lastPass # NoPass /\ lastPass.drew) => lastPass.asset = lastPass.displayed

\* C24: for any sequence of image switches and image-load completions, once
\* no load is in flight the asset the renderer holds is the asset of the
\* image displayed.
C24_CacheMatchesDisplayed ==
    (/\ lifecycle = "mounted"
     /\ image # NoImage
     /\ pendingLoads = {}
     /\ failedLoads = 0) => imageRef = image

\* C30: every redraw request is served: while the viewer is mounted and
\* holds the asset of the image displayed, the frame callback scheduled by
\* a request runs a render pass when it fires (the request is not dropped
\* by the needsRedraw or isRendering guard).
C30_EveryRequestServed ==
    [][(/\ lifecycle = "mounted"
        /\ image # NoImage
        /\ imageRef = image
        /\ pendingFrames' # pendingFrames
        /\ frameCount' = frameCount
        /\ lifecycle' = lifecycle) => renderPasses' = renderPasses + 1]_vars

(***************************************************************************)
(* Specification of ImageAnnotationTool: image set, navigation, history    *)
(* and visibility.  A handler works on the state of the render that        *)
(* created it (images, currentImageIndex, historyIndex, history); its      *)
(* state updates are applied together, then the effect on [images] runs.   *)
(* An annotation is kept as its id and label.                              *)
(***************************************************************************)
\* images uploaded in a behaviour of the parent, and snapshots its history
\* holds when a recorded change is still taken
MaxImages == 2
MaxHistory == 4

LabelNames == {"Tumor", "Lesion"}

\* const currentImage = images[currentImageIndex] || null
currentImage ==
    IF currentImageIndex \in 0..(Len(images) - 1)
    THEN images[currentImageIndex + 1]
    ELSE NoImageData

\* array.slice(-n)
LastOf(seq, n) ==
    IF Len(seq) <= n THEN seq ELSE SubSeq(seq, Len(seq) - n + 1, Len(seq))

\* saveToHistory: the snapshot pushed is the images of the handler's
\* closure, the image set before the handler's own setImages takes effect
saveToHistory ==
    /\ history' = LastOf(Append(SubSeq(history, 1, Min(historyIndex + 1, Len(history))),
                                images),
                         HISTORY_LIMIT)
    /\ historyIndex' = Min(historyIndex + 1, HISTORY_LIMIT - 1)
    /\ lastChange' = [before |-> images]

\* the effect on [images]: with a non-empty image set every annotation id
\* of every image becomes visible
visibleAfterEffect(imgs, visible) ==
    IF Len(imgs) > 0
    THEN UNION {AllAnnotationIds(imgs[i].annotations) : i \in 1..Len(imgs)}
    ELSE visible

\* prev.map(img => img.id === currentImage.id ? {...img, annotations} : img)
withAnnotations(imgs, imageId, newAnnotations) ==
    [i \in 1..Len(imgs) |->
        IF imgs[i].id = imageId
        THEN [imgs[i] EXCEPT !.annotations = newAnnotations]
        ELSE imgs[i]]

\* array.filter(item => item.id !== id)
withoutId(seq, id) ==
    LET keep(item) == item.id # id
    IN  SelectSeq(seq, keep)

toolFrame == <<annotations, activeTool, isDrawing, isTransforming, isDragging,
               isPanning, currentAnnotation, transformHandle, transformStartPoint,
               dragStartPoint, originalAnnotation, scale, gestures, callVars,
               renderVars>>

\* handleImagesUpload with count new images
handleImagesUpload(count) ==
    /\ Len(history) < MaxHistory
    /\ uploads + count <= MaxImages
    /\ images' = images \o [i \in 1..count |-> ImageData(ImageId(uploads + i))]
    /\ uploads' = uploads + count
    /\ currentImageIndex' =
          (IF Len(images) = 0 /\ count > 0 THEN 0 ELSE currentImageIndex)
    /\ saveToHistory
    /\ visibleAnnotations' = visibleAfterEffect(images', visibleAnnotations)
    /\ UNCHANGED <<selectedAnnotation, nextId, hidden, toolFrame>>

\* handleImageRemove
handleImageRemove(imageId) ==
    /\ Len(history) < MaxHistory
    /\ LET filtered == withoutId(images, imageId)
       IN  /\ images' = filtered
           /\ currentImageIndex' =
                 (IF currentImageIndex >= Len(filtered)
                  THEN Max(0, Len(filtered) - 1)
                  ELSE currentImageIndex)
    /\ saveToHistory
    /\ visibleAnnotations' = visibleAfterEffect(images', visibleAnnotations)
    /\ UNCHANGED <<selectedAnnotation, nextId, uploads, hidden, toolFrame>>

\* handleImageSelect: a click on the thumbnail at an index
handleImageSelect(index) ==
    /\ index # currentImageIndex
    /\ currentImageIndex' = index
    /\ UNCHANGED <<images, history, historyIndex, uploads, lastChange, hidden,
                   selectedAnnotation, visibleAnnotations, nextId, toolFrame>>

\* the arrow keys and the header's buttons, enabled with two images or more
navigate(step) ==
    /\ Len(images) > 1
    /\ currentImageIndex' = (currentImageIndex + step + Len(images)) % Len(images)
    /\ UNCHANGED <<images, history, historyIndex, uploads, lastChange, hidden,
                   selectedAnnotation, visibleAnnotations, nextId, toolFrame>>

\* handleAnnotationAdd, called by the viewer with a newly drawn annotation
toolAnnotationAdd ==
    /\ Len(history) < MaxHistory
    /\ nextId < MaxAnn
    /\ currentImage # NoImageData
    /\ LET annotation == [id |-> AnnotationId(nextId), label |-> ""]
       IN  /\ images' = withAnnotations(images, currentImage.id,
                        handleAnnotationAdd(currentImage.annotations, annotation))
           /\ visibleAnnotations' =
                 visibleAfterEffect(images', visibleAnnotations \cup {annotation.id})
    /\ nextId' = nextId + 1
    /\ saveToHistory
    /\ UNCHANGED <<currentImageIndex, uploads, selectedAnnotation, hidden, toolFrame>>

\* handleAnnotationDelete, from the annotation list of the displayed image
handleAnnotationDelete(id) ==
    /\ Len(history) < MaxHistory
    /\ currentImage # NoImageData
    /\ id \in AllAnnotationIds(currentImage.annotations)
    /\ images' = withAnnotations(images, currentImage.id,
                                  withoutId(currentImage.annotations, id))
    /\ visibleAnnotations' = visibleAfterEffect(images', visibleAnnotations \ {id})
    /\ selectedAnnotation' = (IF selectedAnnotation = id THEN Null ELSE selectedAnnotation)
    /\ hidden' = hidden \ {id}
    /\ saveToHistory
    /\ UNCHANGED <<currentImageIndex, uploads, nextId, toolFrame>>

\* handleAnnotationLabelChange, from the annotation list
handleAnnotationLabelChange(id, newLabel) ==
    /\ Len(history) < MaxHistory
    /\ currentImage # NoImageData
    /\ id \in AllAnnotationIds(currentImage.annotations)
    /\ LET anns == currentImage.annotations
           relabelled == [i \in 1..Len(anns) |->
                            IF anns[i].id = id THEN [anns[i] EXCEPT !.label = newLabel]
                            ELSE anns[i]]
       IN  images' = withAnnotations(images, currentImage.id, relabelled)
    /\ visibleAnnotations' = visibleAfterEffect(images', visibleAnnotations)
    /\ saveToHistory
    /\ UNCHANGED <<currentImageIndex, uploads, nextId, selectedAnnotation, hidden,
                   toolFrame>>

\* handleAnnotationToggleVisibility, from the annotation list
handleAnnotationToggleVisibility(id) ==
    /\ currentImage # NoImageData
    /\ id \in AllAnnotationIds(currentImage.annotations)
    /\ visibleAnnotations' =
          (IF id \in visibleAnnotations
           THEN visibleAnnotations \ {id}
           ELSE visibleAnnotations \cup {id})
    /\ hidden' = (IF id \in visibleAnnotations THEN hidden \cup {id} ELSE hidden \ {id})
    /\ UNCHANGED <<images, currentImageIndex, history, historyIndex, uploads,
                   lastChange, selectedAnnotation, nextId, toolFrame>>

\* what handleUndo makes of images, history and historyIndex
undone(tool) ==
    IF tool.historyIndex > 0
    THEN [tool EXCEPT !.historyIndex = @ - 1,
                      !.images = tool.history[(tool.historyIndex - 1) + 1]]
    ELSE tool

\* what handleRedo makes of them
redone(tool) ==
    IF tool.historyIndex < Len(tool.history) - 1
    THEN [tool EXCEPT !.historyIndex = @ + 1,
                      !.images = tool.history[(tool.historyIndex + 1) + 1]]
    ELSE tool

Tool == [images |-> images, history |-> history, historyIndex |-> historyIndex]

\* handleUndo (the button is enabled when historyIndex > 0)
handleUndo ==
    /\ historyIndex > 0
    /\ images' = undone(Tool).images
    /\ historyIndex' = undone(Tool).historyIndex
    /\ lastChange' = NoChange
    /\ visibleAnnotations' = visibleAfterEffect(images', visibleAnnotations)
    /\ UNCHANGED <<currentImageIndex, history, uploads, hidden, selectedAnnotation,
                   nextId, toolFrame>>

\* handleRedo (the button is enabled when historyIndex < history.length - 1)
handleRedo ==
    /\ historyIndex < Len(history) - 1
    /\ images' = redone(Tool).images
    /\ historyIndex' = redone(Tool).historyIndex
    /\ lastChange' = NoChange
    /\ visibleAnnotations' = visibleAfterEffect(images', visibleAnnotations)
    /\ UNCHANGED <<currentImageIndex, history, uploads, hidden, selectedAnnotation,
                   nextId, toolFrame>>

InitTool ==
    /\ RenderNoImage
    /\ ViewerRest
    /\ ToolStart
    /\ call = NoCall
    /\ result = NoCall

NextTool ==
    \/ \E count \in 1..MaxImages : handleImagesUpload(count)
    \/ \E i \in 1..Len(images) : handleImageRemove(images[i].id)
    \/ \E index \in 0..(Len(images) - 1) : handleImageSelect(index)
    \/ \E step \in {-1, 1} : navigate(step)
    \/ toolAnnotationAdd
    \/ \E id \in {AnnotationId(n) : n \in 0..MaxAnn} : handleAnnotationDelete(id)
    \/ \E id \in {AnnotationId(n) : n \in 0..MaxAnn}, label \in LabelNames :
          handleAnnotationLabelChange(id, label)
    \/ \E id \in {AnnotationId(n) : n \in 0..MaxAnn} : handleAnnotationToggleVisibility(id)
    \/ handleUndo
    \/ handleRedo

SpecTool == InitTool /\ [][NextTool]_vars

(***************************************************************************)
(* Properties of the image set and its history (checked under SpecTool)    *)
(***************************************************************************)
\* C23: undo restores the previous state: invoked after a recorded change
\* (upload, removal, annotation add, delete, label change), undo sets the
\* image set to the value it had immediately before the most recent change.
C23_UndoRestoresPrevious ==
    [][(historyIndex' = historyIndex - 1 /\ lastChange # NoChange) =>
          images' = lastChange.before]_vars

\* C25: an annotation hidden through the visibility toggle stays out of the
\* visible set until it is toggled again or deleted, whatever else is done
\* to the image set.
C25_HiddenStaysHidden ==
    hidden \cap visibleAnnotations = {}

\* C28: whenever the image set is not empty, the current-image index is a
\* valid index into it.
C28_IndexValid ==
    Len(images) > 0 => currentImageIndex \in 0..(Len(images) - 1)

\* C29: undo followed at once by redo is a round trip: whenever undo is
\* enabled, the image set after undo and redo is the image set before.
C29_UndoRedoRoundTrip ==
    historyIndex > 0 => redone(undone(Tool)).images = images

====
